---- MODULE Spec2Model ----
(***************************************************************************)
(* Model of the persistence layer of skillpacks: ActionEvent / Episode     *)
(* aggregates (src/skillpacks/base.py), their children Review, Reviewable  *)
(* and ActionOpt, and the relational store they are written to             *)
(* (src/skillpacks/db/models.py).                                          *)
(*                                                                         *)
(* The store is modelled at the level of SQL statements issued by the      *)
(* SQLAlchemy sessions the code opens:                                     *)
(*  - every save()/delete() opens its own session (WithDB.get_db);         *)
(*  - Session.merge(record) SELECTs the row by primary key (for            *)
(*    ActionRecord also its "selectin" collections reviews/reviewables)    *)
(*    and copies the scalar columns of the transient record onto it;       *)
(*    collections that were not set on the transient record are not        *)
(*    touched;                                                              *)
(*  - the first Query issued in a session autoflushes it;                  *)
(*  - the flush of an ActionRecord emits                                   *)
(*       UPDATE actions SET ..., version_id = v+1                          *)
(*          WHERE id = ? AND version_id = v                                *)
(*    only when a scalar column changed; the UPDATE raises StaleDataError  *)
(*    when it matches no row.  Changes of the many-to-many collections     *)
(*    write the association tables only and never touch version_id;        *)
(*  - an UPDATE that was flushed but not committed holds the row until     *)
(*    the transaction ends; other sessions read the committed row.         *)
(***************************************************************************)
EXTENDS Integers, Sequences, FiniteSets, TLC

VARIABLES
    db,        \* the relational store (committed state and row locks)
    nextId,    \* per process: the next value shortuuid.uuid() hands out to it
    mem,       \* per writer: its in-memory ActionEvent copy
    sess,      \* per writer: the session of its running ActionEvent.save()
    out,       \* per writer: how its last save() ended
    nsaves,    \* per writer: number of save() calls started
    added,     \* per writer: ids of the children it appended (history)
    sawError,  \* some save() raised (history)
    ep,        \* the client's in-memory Episode
    lastOp,    \* the operation performed by the last step (history)
    lastCall,  \* last post_review arguments per (action, reviewer pair) (history)
    arg,       \* the value a constructor or a conversion is applied to
    v1,        \* the wire form (V1 model) of arg
    ret        \* what the constructor or the conversion gave back

vars == <<db, nextId, mem, sess, out, nsaves, added, sawError, ep, lastOp, lastCall,
          arg, v1, ret>>

----------------------------------------------------------------------------
(* Bounds *)

MaxSaves == 2      \* save() calls of the concurrent writers, all together
MaxActions == 2    \* ActionEvents recorded into the Episode
MaxEpisodeOps == 4 \* operations performed on the Episode

Writers == {"w1", "w2"}
Reviewers == {"alice", "bob"}
ReviewerTypes == {"human"}

NoId == 0                 \* Python None for an id-valued attribute
ForeignId == NoId - 1     \* an id that is not an id of any modelled object
SharedId == NoId + 1      \* id of the ActionEvent the concurrent writers share
FirstFreeId == SharedId + 1

\* shortuuid.uuid() returns a fresh id: every process draws from a range of
\* its own
Processes == Writers \cup {"client"}
IdBase(p) ==
    CASE p = "w1" -> FirstFreeId
      [] p = "w2" -> FirstFreeId + MaxSaves
      [] OTHER -> FirstFreeId

----------------------------------------------------------------------------
(* Generic helpers *)

Put(f, k, v) == [x \in (DOMAIN f) \cup {k} |-> IF x = k THEN v ELSE f[x]]
Drop(f, K) == [x \in (DOMAIN f) \ K |-> f[x]]
EmptyTable == [x \in {} |-> x]

RECURSIVE SortedSeq(_)
SortedSeq(S) ==
    IF S = {} THEN <<>>
    ELSE LET m == CHOOSE x \in S : \A y \in S : x <= y
         IN <<m>> \o SortedSeq(S \ {m})

Ids(seq) == {seq[i].id : i \in DOMAIN seq}

----------------------------------------------------------------------------
(* Records <-> domain objects *)

\* Review.to_record / Review.from_record
ReviewToRecord(r) ==
    [reviewer |-> r.reviewer, reviewer_type |-> r.reviewer_type,
     approved |-> r.approved, reason |-> r.reason,
     resource_type |-> r.resource_type, resource_id |-> r.resource_id]

ReviewFromRecord(id, row) ==
    [id |-> id, reviewer |-> row.reviewer, reviewer_type |-> row.reviewer_type,
     approved |-> row.approved, reason |-> row.reason,
     resource_type |-> row.resource_type, resource_id |-> row.resource_id]

\* the registry of the Reviewable variants: type tag -> name, name -> class
reviewable_string_map ==
    [t \in {"BoundingBoxReviewable", "AnnotationReviewable"} |-> t]

reviewable_type_map ==
    [t \in {"BoundingBoxReviewable", "AnnotationReviewable"} |-> t]

\* Reviewable.to_record: type is the name of the class; the nested reviews
\* are not part of the row
ReviewableToRecord(rv) ==
    [type |-> rv.type, resource_type |-> rv.resource_type, resource_id |-> rv.resource_id]

\* ActionOpt.to_record
ActionOptToRecord(o) == [action_id |-> o.action_id]

ActionOptFromRecord(id, row) == [id |-> id, action_id |-> row.action_id]

\* ActionEvent.to_record: scalar columns only; version_id and the
\* collections are not set on the transient record
ActionToRecord(ev) ==
    [flagged |-> ev.flagged, hidden |-> ev.hidden, episode_id |-> ev.episode_id]

RowScalars(row) ==
    [flagged |-> row.flagged, hidden |-> row.hidden, episode_id |-> row.episode_id]

----------------------------------------------------------------------------
(* Reads of the store *)

ReviewsOf(d, aid) == {p[2] : p \in {q \in d.action_reviews : q[1] = aid}}
ReviewablesOf(d, aid) == {p[2] : p \in {q \in d.action_reviewables : q[1] = aid}}
ReviewsOfReviewable(d, vid) == {p[2] : p \in {q \in d.reviewable_reviews : q[1] = vid}}
OptsOf(d, aid) == {o \in DOMAIN d.action_opts : d.action_opts[o].action_id = aid}

\* Reviewable.from_record
ReviewableFromRecord(d, id) ==
    [id |-> id,
     type |-> reviewable_type_map[d.reviewables[id].type],
     resource_type |-> d.reviewables[id].resource_type,
     resource_id |-> d.reviewables[id].resource_id,
     reviews |-> LET s == SortedSeq(ReviewsOfReviewable(d, id) \cap DOMAIN d.reviews)
                 IN [i \in DOMAIN s |-> ReviewFromRecord(s[i], d.reviews[s[i]])]]

\* ActionEvent.from_record
ActionFromRecord(d, aid) ==
    LET rs == SortedSeq(ReviewsOf(d, aid) \cap DOMAIN d.reviews)
        vs == SortedSeq(ReviewablesOf(d, aid) \cap DOMAIN d.reviewables)
        os == SortedSeq(OptsOf(d, aid))
    IN [id |-> aid,
        flagged |-> d.actions[aid].flagged,
        hidden |-> d.actions[aid].hidden,
        episode_id |-> d.actions[aid].episode_id,
        reviews |-> [i \in DOMAIN rs |-> ReviewFromRecord(rs[i], d.reviews[rs[i]])],
        reviewables |-> [i \in DOMAIN vs |-> ReviewableFromRecord(d, vs[i])],
        action_opts |-> [i \in DOMAIN os |-> ActionOptFromRecord(os[i], d.action_opts[os[i]])]]

----------------------------------------------------------------------------
(* Saves of the children.  Each child save() runs in a session of its own *)
(* and commits at once: db.merge(record); db.commit() is an upsert.        *)

\* Review.save
ReviewSave(d, r) == [d EXCEPT !.reviews = Put(@, r.id, ReviewToRecord(r))]

RECURSIVE ReviewSaveAll(_, _)
ReviewSaveAll(d, rs) ==
    IF rs = <<>> THEN d ELSE ReviewSaveAll(ReviewSave(d, Head(rs)), Tail(rs))

\* "if not review.resource_id: review.resource_id = self.id" (and the type)
FillResource(r, id, type) ==
    [r EXCEPT !.resource_id = IF @ = NoId THEN id ELSE @,
              !.resource_type = IF @ = "None" THEN type ELSE @]

\* Reviewable.save: the nested reviews only get resource_id filled
FillNested(rv) ==
    [rv EXCEPT !.reviews =
        [i \in DOMAIN rv.reviews |->
            [rv.reviews[i] EXCEPT !.resource_id = IF @ = NoId THEN rv.id ELSE @]]]

\* Reviewable.save: upsert the row, save the nested reviews and set the
\* reviewable's association rows to exactly the nested list
ReviewableSave(d, rv) ==
    LET v  == FillNested(rv)
        d1 == [d EXCEPT !.reviewables = Put(@, v.id, ReviewableToRecord(v))]
    IN IF v.reviews = <<>> THEN d1
       ELSE [ReviewSaveAll(d1, v.reviews) EXCEPT !.reviewable_reviews =
                {p \in @ : p[1] # v.id} \cup {<<v.id, x>> : x \in Ids(v.reviews)}]

RECURSIVE ReviewableSaveAll(_, _)
ReviewableSaveAll(d, vs) ==
    IF vs = <<>> THEN d ELSE ReviewableSaveAll(ReviewableSave(d, Head(vs)), Tail(vs))

\* ActionOpt.save: upsert of the row; the row carries the foreign key
\* action_id, so a saved ActionOpt belongs to the ActionEvent at once
ActionOptSave(d, o) == [d EXCEPT !.action_opts = Put(@, o.id, ActionOptToRecord(o))]

RECURSIVE ActionOptSaveAll(_, _)
ActionOptSaveAll(d, os) ==
    IF os = <<>> THEN d ELSE ActionOptSaveAll(ActionOptSave(d, Head(os)), Tail(os))

----------------------------------------------------------------------------
(* ActionEvent.save, one step per stretch of code between two accesses of *)
(* the shared store.  A step maps st = [db, ev, s, out] to the next st.    *)

IdleSession ==
    [pc |-> "idle", present |-> FALSE, version |-> 0, snapR |-> {}, snapRv |-> {},
     dirty |-> FALSE, flushed |-> FALSE, setR |-> FALSE, setRv |-> FALSE,
     conflicted |-> FALSE]

AfterReviewables(ev) == IF ev.action_opts # <<>> THEN "opts" ELSE "commit"
AfterReviews(ev) == IF ev.reviewables # <<>> THEN "reviewables" ELSE AfterReviewables(ev)
AfterMerge(ev) == IF ev.reviews # <<>> THEN "reviews" ELSE AfterReviews(ev)

LockedByOther(d, id, me) == \E p \in d.lock : p[1] = id /\ p[2] # me
Unlock(d, me) == [d EXCEPT !.lock = {p \in @ : p[2] # me}]

\* the session is closed: rollback of what was not committed
EndSave(st, me, result) ==
    [db |-> Unlock(st.db, me), ev |-> st.ev,
     s |-> [IdleSession EXCEPT !.conflicted = st.s.conflicted],
     out |-> result]

\* except StaleDataError: db.rollback(), then the handler runs
ToConflict(st, me) ==
    [db |-> Unlock(st.db, me), ev |-> st.ev,
     s |-> [st.s EXCEPT !.pc = "conflict", !.flushed = FALSE, !.conflicted = TRUE],
     out |-> "none"]

\* record = self.to_record(); merged_record = db.merge(record)
MergeStep(st, me) ==
    LET d == st.db
        ev == st.ev
        present == ev.id \in DOMAIN d.actions
    IN [st EXCEPT !.s =
          [pc |-> AfterMerge(ev),
           present |-> present,
           version |-> IF present THEN d.actions[ev.id].version_id ELSE 0,
           snapR |-> IF present THEN ReviewsOf(d, ev.id) ELSE {},
           snapRv |-> IF present THEN ReviewablesOf(d, ev.id) ELSE {},
           dirty |-> IF present THEN RowScalars(d.actions[ev.id]) # ActionToRecord(ev)
                     ELSE TRUE,
           flushed |-> FALSE, setR |-> FALSE, setRv |-> FALSE,
           conflicted |-> FALSE],
        !.out = "none"]

\* Mutant of FlushOutcome: the UPDATE does not compare version_id
FlushUnversioned(d, ev, s, me) ==
    IF s.flushed \/ ~s.dirty THEN "clean"
    ELSE IF LockedByOther(d, ev.id, me) THEN "blocked"
    ELSE IF s.present
         THEN IF ev.id \in DOMAIN d.actions THEN "written" ELSE "stale"
         ELSE IF ev.id \in DOMAIN d.actions THEN "integrity" ELSE "written"

\* Autoflush of the session: what the UPDATE / INSERT of the ActionRecord does
FlushOutcome(d, ev, s, me) ==
    IF s.flushed \/ ~s.dirty THEN "clean"
    ELSE IF LockedByOther(d, ev.id, me) THEN "blocked"
    ELSE IF s.present
         THEN IF ev.id \in DOMAIN d.actions /\ d.actions[ev.id].version_id = s.version
              THEN "written" ELSE "stale"
         ELSE IF ev.id \in DOMAIN d.actions THEN "integrity" ELSE "written"

Flushed(st, me, fo) ==
    IF fo = "written"
    THEN [st EXCEPT !.db.lock = @ \cup {<<st.ev.id, me>>}, !.s.flushed = TRUE]
    ELSE st

\* lines 259-271: save the reviews, then query them (autoflush) and assign
\* merged_record.reviews
ReviewsStep(st, me) ==
    LET ev1 == [st.ev EXCEPT !.reviews =
                  [i \in DOMAIN @ |-> FillResource(@[i], st.ev.id, "action")]]
        st1 == [st EXCEPT !.ev = ev1, !.db = ReviewSaveAll(st.db, ev1.reviews)]
        fo  == FlushOutcome(st1.db, ev1, st1.s, me)
    IN CASE fo = "stale" -> ToConflict(st1, me)
         [] fo = "integrity" -> EndSave(st1, me, "error")
         [] OTHER -> [Flushed(st1, me, fo) EXCEPT !.s.setR = TRUE,
                                                  !.s.pc = AfterReviews(ev1)]

\* lines 274-285: the same for the reviewables
ReviewablesStep(st, me) ==
    LET ev1 == [st.ev EXCEPT !.reviewables =
                  [i \in DOMAIN @ |-> FillNested(FillResource(@[i], st.ev.id, "action"))]]
        st1 == [st EXCEPT !.ev = ev1, !.db = ReviewableSaveAll(st.db, ev1.reviewables)]
        fo  == FlushOutcome(st1.db, ev1, st1.s, me)
    IN CASE fo = "stale" -> ToConflict(st1, me)
         [] fo = "integrity" -> EndSave(st1, me, "error")
         [] OTHER -> [Flushed(st1, me, fo) EXCEPT !.s.setRv = TRUE,
                                                  !.s.pc = AfterReviewables(ev1)]

\* Mutant of OptsStep: the ActionOpts are saved with the action_id they carry
OptsStepKeepsActionId(st, me) ==
    LET ev1 == st.ev
        st1 == [st EXCEPT !.ev = ev1, !.db = ActionOptSaveAll(st.db, ev1.action_opts)]
        fo  == FlushOutcome(st1.db, ev1, st1.s, me)
        st2 == Flushed(st1, me, fo)
    IN CASE fo = "stale" -> ToConflict(st1, me)
         [] fo = "integrity" -> EndSave(st1, me, "error")
         [] OTHER -> IF ev1.id \in DOMAIN st2.db.actions \/ st2.s.flushed
                     THEN [st2 EXCEPT !.s.pc = "commit"]
                     ELSE EndSave(st2, me, "error")

\* lines 288-299: force action_id, save the ActionOpts, re-query the
\* ActionRecord (autoflush); "if not record: raise ValueError"
OptsStep(st, me) ==
    LET ev1 == [st.ev EXCEPT !.action_opts =
                  [i \in DOMAIN @ |-> [@[i] EXCEPT !.action_id = st.ev.id]]]
        st1 == [st EXCEPT !.ev = ev1, !.db = ActionOptSaveAll(st.db, ev1.action_opts)]
        fo  == FlushOutcome(st1.db, ev1, st1.s, me)
        st2 == Flushed(st1, me, fo)
    IN CASE fo = "stale" -> ToConflict(st1, me)
         [] fo = "integrity" -> EndSave(st1, me, "error")
         [] OTHER -> IF ev1.id \in DOMAIN st2.db.actions \/ st2.s.flushed
                     THEN [st2 EXCEPT !.s.pc = "commit"]
                     ELSE EndSave(st2, me, "error")

\* what db.commit() writes for the ActionRecord and its collections
CommitWrites(d, ev, s) ==
    LET delR  == IF s.setR THEN s.snapR \ Ids(ev.reviews) ELSE {}
        addR  == IF s.setR THEN Ids(ev.reviews) \ s.snapR ELSE {}
        delRv == IF s.setRv THEN s.snapRv \ Ids(ev.reviewables) ELSE {}
        addRv == IF s.setRv THEN Ids(ev.reviewables) \ s.snapRv ELSE {}
        row   == [flagged |-> ev.flagged, hidden |-> ev.hidden,
                  episode_id |-> ev.episode_id,
                  version_id |-> s.version + 1]
    IN [d EXCEPT
          !.actions = IF s.dirty THEN Put(@, ev.id, row) ELSE @,
          !.action_reviews =
              (@ \ {<<ev.id, x>> : x \in delR}) \cup {<<ev.id, x>> : x \in addR},
          !.action_reviewables =
              (@ \ {<<ev.id, x>> : x \in delRv}) \cup {<<ev.id, x>> : x \in addRv}]

\* a DELETE of association rows that matches fewer rows than expected
\* raises StaleDataError as well
AssociationRowsGone(d, ev, s) ==
    \/ s.setR /\ ~((s.snapR \ Ids(ev.reviews)) \subseteq ReviewsOf(d, ev.id))
    \/ s.setRv /\ ~((s.snapRv \ Ids(ev.reviewables)) \subseteq ReviewablesOf(d, ev.id))

\* line 301: db.commit()
CommitStep(st, me) ==
    LET fo  == FlushOutcome(st.db, st.ev, st.s, me)
        st1 == Flushed(st, me, fo)
    IN CASE fo = "stale" -> ToConflict(st, me)
         [] fo = "integrity" -> EndSave(st, me, "error")
         [] OTHER -> IF AssociationRowsGone(st1.db, st1.ev, st1.s)
                     THEN ToConflict(st1, me)
                     ELSE EndSave([st1 EXCEPT !.db = CommitWrites(@, st1.ev, st1.s)],
                                  me, "ok")

\* Mutant of ConflictStep: a reload that finds no row ends the save() quietly
ConflictWithoutRow(st, me) ==
    LET d  == st.db
        ev == st.ev
        newR  == SelectSeq(ev.reviews, LAMBDA r : r.id \notin ReviewsOf(d, ev.id))
        newRv == SelectSeq(ev.reviewables, LAMBDA v : v.id \notin ReviewablesOf(d, ev.id))
        newO  == SelectSeq(ev.action_opts, LAMBDA o : o.id \notin OptsOf(d, ev.id))
    IN IF ev.id \notin DOMAIN d.actions THEN EndSave(st, me, "noop")
       ELSE IF newR # <<>> THEN
            EndSave([st EXCEPT !.db = ReviewSave(d, FillResource(Head(newR), ev.id, "action"))],
                    me, "error")
       ELSE IF newRv # <<>> THEN
            EndSave([st EXCEPT !.db = ReviewableSave(d, FillNested(FillResource(Head(newRv),
                                                                   ev.id, "action")))],
                    me, "error")
       ELSE IF newO # <<>> THEN
            EndSave([st EXCEPT !.db = ActionOptSave(d, [Head(newO) EXCEPT !.action_id = ev.id])],
                    me, "error")
       ELSE EndSave(st, me, "noop")

\* Mutant of ConflictStep: a handler that finds nothing to merge runs the
\* save() again from its start
ConflictRetriesAgain(st, me) ==
    LET d  == st.db
        ev == st.ev
        newR  == SelectSeq(ev.reviews, LAMBDA r : r.id \notin ReviewsOf(d, ev.id))
        newRv == SelectSeq(ev.reviewables, LAMBDA v : v.id \notin ReviewablesOf(d, ev.id))
        newO  == SelectSeq(ev.action_opts, LAMBDA o : o.id \notin OptsOf(d, ev.id))
    IN IF ev.id \notin DOMAIN d.actions THEN EndSave(st, me, "error")
       ELSE IF newR # <<>> THEN
            LET r == FillResource(Head(newR), ev.id, "action")
                ev1 == [ev EXCEPT !.reviews =
                          [i \in DOMAIN @ |-> IF @[i].id = r.id THEN r ELSE @[i]]]
            IN EndSave([st EXCEPT !.ev = ev1, !.db = ReviewSave(d, r)], me, "error")
       ELSE IF newRv # <<>> THEN
            LET v == FillNested(FillResource(Head(newRv), ev.id, "action"))
                ev1 == [ev EXCEPT !.reviewables =
                          [i \in DOMAIN @ |-> IF @[i].id = v.id THEN v ELSE @[i]]]
            IN EndSave([st EXCEPT !.ev = ev1, !.db = ReviewableSave(d, v)], me, "error")
       ELSE IF newO # <<>> THEN
            LET o == [Head(newO) EXCEPT !.action_id = ev.id]
                ev1 == [ev EXCEPT !.action_opts =
                          [i \in DOMAIN @ |-> IF @[i].id = o.id THEN o ELSE @[i]]]
            IN EndSave([st EXCEPT !.ev = ev1, !.db = ActionOptSave(d, o)], me, "error")
       ELSE [st EXCEPT !.s = [IdleSession EXCEPT !.pc = "merge", !.conflicted = TRUE]]

\* Mutant of ConflictStep: the handler writes the caller's scalar fields over
\* the latest row and reports success
ConflictOverwrites(st, me) ==
    IF st.ev.id \notin DOMAIN st.db.actions THEN EndSave(st, me, "error")
    ELSE EndSave([st EXCEPT !.db.actions[st.ev.id] =
                     [flagged |-> st.ev.flagged, hidden |-> st.ev.hidden,
                      episode_id |-> st.ev.episode_id,
                      version_id |-> @.version_id + 1]],
                 me, "ok")

\* lines 310-391: the handler of the version conflict.  latest_record is
\* re-read; the first child of the caller that latest_record does not have
\* is saved by its own save() and then appended to the mapped collection of
\* latest_record.  What is appended is the domain object (Review, Reviewable,
\* ActionOpt), not a mapped record: the append raises, "except Exception"
\* rolls back and raises ValueError.  Without such a child the handler only
\* prints and save() returns.
ConflictStep(st, me) ==
    LET d  == st.db
        ev == st.ev
        newR  == SelectSeq(ev.reviews, LAMBDA r : r.id \notin ReviewsOf(d, ev.id))
        newRv == SelectSeq(ev.reviewables, LAMBDA v : v.id \notin ReviewablesOf(d, ev.id))
        newO  == SelectSeq(ev.action_opts, LAMBDA o : o.id \notin OptsOf(d, ev.id))
    IN IF ev.id \notin DOMAIN d.actions THEN EndSave(st, me, "error")
       ELSE IF newR # <<>> THEN
            LET r == FillResource(Head(newR), ev.id, "action")
                ev1 == [ev EXCEPT !.reviews =
                          [i \in DOMAIN @ |-> IF @[i].id = r.id THEN r ELSE @[i]]]
            IN EndSave([st EXCEPT !.ev = ev1, !.db = ReviewSave(d, r)], me, "error")
       ELSE IF newRv # <<>> THEN
            LET v == FillNested(FillResource(Head(newRv), ev.id, "action"))
                ev1 == [ev EXCEPT !.reviewables =
                          [i \in DOMAIN @ |-> IF @[i].id = v.id THEN v ELSE @[i]]]
            IN EndSave([st EXCEPT !.ev = ev1, !.db = ReviewableSave(d, v)], me, "error")
       ELSE IF newO # <<>> THEN
            LET o == [Head(newO) EXCEPT !.action_id = ev.id]
                ev1 == [ev EXCEPT !.action_opts =
                          [i \in DOMAIN @ |-> IF @[i].id = o.id THEN o ELSE @[i]]]
            IN EndSave([st EXCEPT !.ev = ev1, !.db = ActionOptSave(d, o)], me, "error")
       ELSE EndSave(st, me, "noop")

SaveStep(st, me) ==
    CASE st.s.pc = "merge" -> MergeStep(st, me)
      [] st.s.pc = "reviews" -> ReviewsStep(st, me)
      [] st.s.pc = "reviewables" -> ReviewablesStep(st, me)
      [] st.s.pc = "opts" -> OptsStep(st, me)
      [] st.s.pc = "commit" -> CommitStep(st, me)
      [] st.s.pc = "conflict" -> ConflictStep(st, me)
      [] OTHER -> st

\* the UPDATE of this step has to wait for another transaction to end
Blocked(st, me) ==
    /\ st.s.pc \in {"reviews", "reviewables", "opts", "commit"}
    /\ FlushOutcome(st.db, st.ev, st.s, me) = "blocked"

\* ActionEvent.save run from its first line to its return
RECURSIVE RunSave(_, _)
RunSave(st, me) ==
    IF st.s.pc = "idle" THEN st ELSE RunSave(SaveStep(st, me), me)

ActionSave(d, ev, me) ==
    RunSave([db |-> d, ev |-> ev, s |-> [IdleSession EXCEPT !.pc = "merge"],
             out |-> "none"], me)

----------------------------------------------------------------------------
(* In-memory operations of ActionEvent *)

\* Review(...) as constructed by ActionEvent.post_review
NewReview(id, reviewer, reviewer_type, approved, reason, resource_id) ==
    [id |-> id, reviewer |-> reviewer, reviewer_type |-> reviewer_type,
     approved |-> approved, reason |-> reason,
     resource_type |-> "action", resource_id |-> resource_id]

HasReviewBy(ev, reviewer, reviewer_type) ==
    \E i \in DOMAIN ev.reviews :
        ev.reviews[i].reviewer = reviewer /\ ev.reviews[i].reviewer_type = reviewer_type

\* Mutant of PostReviewMem: every call appends a new Review
PostReviewAppends(ev, reviewer, reviewer_type, approved, reason, id) ==
    [ev EXCEPT !.reviews =
        Append(@, NewReview(id, reviewer, reviewer_type, approved, reason, ev.id))]

\* ActionEvent.post_review up to its call of save(): update every review of
\* the pair in place, or append a new one
PostReviewMem(ev, reviewer, reviewer_type, approved, reason, id) ==
    IF HasReviewBy(ev, reviewer, reviewer_type)
    THEN [ev EXCEPT !.reviews =
            [i \in DOMAIN @ |->
                IF @[i].reviewer = reviewer /\ @[i].reviewer_type = reviewer_type
                THEN [@[i] EXCEPT !.approved = approved, !.reason = reason]
                ELSE @[i]]]
    ELSE [ev EXCEPT !.reviews =
            Append(@, NewReview(id, reviewer, reviewer_type, approved, reason, ev.id))]

\* Mutant of RegisteredClass: every type tag is taken as the name of a class
AnyClass(type) ==
    type

\* ActionEvent.post_reviewable: the class registered for the type tag, "None"
\* when the tag is not registered (the call raises)
RegisteredClass(type) ==
    IF type \in DOMAIN reviewable_string_map
    THEN reviewable_type_map[reviewable_string_map[type]]
    ELSE "None"

\* ActionEvent.post_reviewable (of a registered type) up to its call of save()
PostReviewableMem(ev, type, id) ==
    [ev EXCEPT !.reviewables =
        Append(@, [id |-> id, type |-> RegisteredClass(type),
                   resource_type |-> "action", resource_id |-> ev.id,
                   reviews |-> <<>>])]

\* ActionEvent.add_actionOpt up to its call of save()
AddActionOptMem(ev, id) ==
    [ev EXCEPT !.action_opts = Append(@, [id |-> id, action_id |-> ev.id])]

----------------------------------------------------------------------------
(* Specification Spec: independent writers, each holding a copy of the     *)
(* same persisted ActionEvent, run load-mutate-save cycles against it.     *)

EmptyDb ==
    [actions |-> EmptyTable, reviews |-> EmptyTable, reviewables |-> EmptyTable,
     action_opts |-> EmptyTable, episodes |-> EmptyTable, ratings |-> EmptyTable,
     action_reviews |-> {}, action_reviewables |-> {}, reviewable_reviews |-> {},
     lock |-> {}]

NoEpisode == [id |-> NoId, actions |-> <<>>, updated |-> 0]
NoOp == [name |-> "init", target |-> NoId, ok |-> TRUE]
\* no constructor or conversion has run
NoValue == [kind |-> "none"]

Init ==
    /\ db = [EmptyDb EXCEPT !.actions =
                Put(@, SharedId, [flagged |-> FALSE, hidden |-> FALSE,
                                  episode_id |-> NoId, version_id |-> 1])]
    /\ nextId = [p \in Processes |-> IdBase(p)]
    /\ mem = [w \in Writers |-> ActionFromRecord(db, SharedId)]
    /\ sess = [w \in Writers |-> IdleSession]
    /\ out = [w \in Writers |-> "none"]
    /\ nsaves = [p \in Processes |-> 0]
    /\ added = [w \in Writers |-> {}]
    /\ sawError = FALSE
    /\ ep = NoEpisode
    /\ lastOp = NoOp
    /\ lastCall = EmptyTable
    /\ arg = NoValue
    /\ v1 = NoValue
    /\ ret = NoValue

Idle(w) == sess[w].pc = "idle"

\* ActionEvent.find(id=...)[0]: a fresh copy of the persisted aggregate
Load(w) ==
    /\ Idle(w)
    /\ mem[w] # ActionFromRecord(db, SharedId)
    /\ mem' = [mem EXCEPT ![w] = ActionFromRecord(db, SharedId)]
    /\ UNCHANGED <<db, nextId, sess, out, nsaves, added, sawError, ep, lastOp, lastCall, arg, v1, ret>>

\* the caller assigns a scalar attribute of its copy
SetFlagged(w, v) ==
    /\ Idle(w)
    /\ mem[w].flagged # v
    /\ mem' = [mem EXCEPT ![w].flagged = v]
    /\ UNCHANGED <<db, nextId, sess, out, nsaves, added, sawError, ep, lastOp, lastCall, arg, v1, ret>>

StartSave(w, ev, newIds) ==
    /\ Idle(w)
    /\ nsaves["w1"] + nsaves["w2"] < MaxSaves
    /\ mem' = [mem EXCEPT ![w] = ev]
    /\ sess' = [sess EXCEPT ![w] = [IdleSession EXCEPT !.pc = "merge"]]
    /\ out' = [out EXCEPT ![w] = "none"]
    /\ nsaves' = [nsaves EXCEPT ![w] = @ + 1]
    /\ added' = [added EXCEPT ![w] = @ \cup newIds]
    /\ nextId' = [nextId EXCEPT ![w] = @ + Cardinality(newIds)]
    /\ UNCHANGED <<db, sawError, ep, lastOp, lastCall, arg, v1, ret>>

PostReview(w, reviewer, reviewer_type, approved, reason) ==
    /\ Idle(w)
    /\ StartSave(w, PostReviewMem(mem[w], reviewer, reviewer_type, approved, reason, nextId[w]),
              IF HasReviewBy(mem[w], reviewer, reviewer_type) THEN {} ELSE {nextId[w]})

PostReviewable(w) ==
    /\ Idle(w)
    /\ \E type \in DOMAIN reviewable_string_map :
          StartSave(w, PostReviewableMem(mem[w], type, nextId[w]), {nextId[w]})

AddActionOpt(w) ==
    /\ Idle(w)
    /\ StartSave(w, AddActionOptMem(mem[w], nextId[w]), {nextId[w]})

Save(w) ==
    /\ Idle(w)
    /\ StartSave(w, mem[w], {})

\* one step of the running save() of writer w
Step(w, at) ==
    LET st  == [db |-> db, ev |-> mem[w], s |-> sess[w], out |-> out[w]]
        st1 == SaveStep(st, w)
    IN /\ sess[w].pc = at
       /\ ~Blocked(st, w)
       /\ db' = st1.db
       /\ mem' = [mem EXCEPT ![w] = st1.ev]
       /\ sess' = [sess EXCEPT ![w] = st1.s]
       /\ out' = [out EXCEPT ![w] = st1.out]
       /\ sawError' = (sawError \/ st1.out = "error")
       /\ UNCHANGED <<nextId, nsaves, added, ep, lastOp, lastCall, arg, v1, ret>>

SaveMerge(w) ==
    /\ sess[w].pc = "merge"
    /\ Step(w, "merge")
SaveReviews(w) ==
    /\ sess[w].pc = "reviews"
    /\ Step(w, "reviews")
SaveReviewables(w) ==
    /\ sess[w].pc = "reviewables"
    /\ Step(w, "reviewables")
SaveActionOpts(w) ==
    /\ sess[w].pc = "opts"
    /\ Step(w, "opts")
SaveCommit(w) ==
    /\ sess[w].pc = "commit"
    /\ Step(w, "commit")
SaveConflict(w) ==
    /\ sess[w].pc = "conflict"
    /\ Step(w, "conflict")

Next ==
    \E w \in Writers :
        \/ Load(w)
        \/ \E v \in BOOLEAN : SetFlagged(w, v)
        \/ \E r \in Reviewers, t \in ReviewerTypes, a \in BOOLEAN :
              PostReview(w, r, t, a, "None")
        \/ PostReviewable(w)
        \/ AddActionOpt(w)
        \/ Save(w)
        \/ SaveMerge(w)
        \/ SaveReviews(w)
        \/ SaveReviewables(w)
        \/ SaveActionOpts(w)
        \/ SaveCommit(w)
        \/ SaveConflict(w)

Spec == Init /\ [][Next]_vars

----------------------------------------------------------------------------
(* Properties of the concurrent writers (specification Spec) *)

AllIdle == \A w \in Writers : Idle(w)

SamePair(r1, r2) == r1.reviewer = r2.reviewer /\ r1.reviewer_type = r2.reviewer_type

\* A appended the review ra and B the review rb, each in its only save();
\* B's copy does not hold ra, and B's first commit attempt was a conflict
ConcurrentReviewAdds(A, B, ra, rb) ==
    /\ A # B /\ Idle(A) /\ Idle(B)
    /\ nsaves[A] = 1 /\ nsaves[B] = 1
    /\ added[A] = {ra} /\ added[B] = {rb}
    /\ ra \in Ids(mem[A].reviews) /\ rb \in Ids(mem[B].reviews)
    /\ ra \notin Ids(mem[B].reviews)
    /\ \A i \in DOMAIN mem[A].reviews, j \in DOMAIN mem[B].reviews :
          (mem[A].reviews[i].id = ra /\ mem[B].reviews[j].id = rb)
             => mem[A].reviews[i].reviewer # mem[B].reviews[j].reviewer
    /\ out[A] = "ok"
    /\ sess[B].conflicted

\* C1: two writers each append a distinct Review to their copy of the same
\* ActionEvent and save; B's copy predates A's commit and B's first commit
\* attempt hits the version conflict.  Then neither save() has failed and the
\* persisted ActionEvent is associated with both reviews.
C1_BothReviewsKept ==
    \A A \in Writers, B \in Writers :
        \A ra \in added[A], rb \in added[B] :
            ConcurrentReviewAdds(A, B, ra, rb)
               => /\ out[A] # "error" /\ out[B] # "error"
                  /\ {ra, rb} \subseteq ReviewsOf(db, SharedId)

ChildrenOf(d, aid) == ReviewsOf(d, aid) \cup ReviewablesOf(d, aid) \cup OptsOf(d, aid)

\* C2: when every save() of every writer has returned without error, every
\* Review, Reviewable and ActionOpt a writer added is still associated with
\* the persisted ActionEvent.
C2_NoChildLost ==
    (AllIdle /\ ~sawError)
       => \A w \in Writers : added[w] \subseteq ChildrenOf(db, SharedId)

\* C4: a persisted ActionEvent never has two associated Reviews of the same
\* (reviewer, reviewer_type) pair.
C4_OneReviewPerPair ==
    \A a \in DOMAIN db.actions :
        \A r1 \in ReviewsOf(db, a) \cap DOMAIN db.reviews,
           r2 \in ReviewsOf(db, a) \cap DOMAIN db.reviews :
            SamePair(db.reviews[r1], db.reviews[r2]) => r1 = r2

\* the step is the commit of w's save(), which never met a conflict
CommitsCleanly(w) ==
    /\ sess[w].pc = "commit" /\ sess'[w].pc = "idle" /\ out'[w] = "ok"

\* C5: right after a save() that commits without a version conflict, the
\* reviews and reviewables associated with the persisted ActionEvent are
\* exactly those of the in-memory lists (also when a list is empty).
C5_MembershipIsExactlyMemory ==
    [][\A w \in Writers :
          CommitsCleanly(w)
             => /\ ReviewsOf(db', mem'[w].id) = Ids(mem'[w].reviews)
                /\ ReviewablesOf(db', mem'[w].id) = Ids(mem'[w].reviewables)]_vars

\* the caller holds no child that the latest persisted ActionEvent lacks
NothingNew(d, ev) ==
    (Ids(ev.reviews) \cup Ids(ev.reviewables) \cup Ids(ev.action_opts))
        \subseteq ChildrenOf(d, ev.id)

FlushesUpdate(w) ==
    /\ sess[w].pc \in {"reviews", "reviewables", "opts", "commit"}
    /\ sess[w].dirty /\ ~sess[w].flushed /\ sess[w].present
    /\ sess'[w] # sess[w]

\* C9: every committed update of an ActionEvent row increments version_id by
\* one and is made by a writer whose view of the version is the current one;
\* an UPDATE from a stale view is rejected as a version conflict and leaves
\* the row as it is.
C9_VersionCounter ==
    [][\A a \in (DOMAIN db.actions) \cap (DOMAIN db'.actions) :
          /\ db'.actions[a] # db.actions[a]
                => /\ db'.actions[a].version_id = db.actions[a].version_id + 1
                   /\ \E w \in Writers :
                         /\ mem[w].id = a /\ sess[w].pc = "commit" /\ out'[w] = "ok"
                         /\ sess[w].version = db.actions[a].version_id
          /\ \A w \in Writers :
                (mem[w].id = a /\ FlushesUpdate(w)
                    /\ sess[w].version # db.actions[a].version_id)
                   => /\ sess'[w].pc = "conflict"
                      /\ db'.actions[a] = db.actions[a]]_vars

C9_Witness ==
    /\ db.actions[SharedId].version_id > 1
    /\ \E w \in Writers : sess[w].pc = "conflict"

----------------------------------------------------------------------------
(* Deletes *)

\* Mutant of CascadeDelete: only the row of the ActionEvent and its association
\* rows are deleted, the rows of its reviews and reviewables stay
DeleteRowOnly(d, aid) ==
    [d EXCEPT
       !.actions = Drop(@, {aid}),
       !.action_reviews = {p \in @ : p[1] # aid},
       !.action_reviewables = {p \in @ : p[1] # aid}]

\* db.delete(action_record): the row goes, and with it (relationship cascade
\* "all, delete") the associated ReviewRecords and ReviewableRecords, the
\* reviews of those reviewables, and the association rows.  The action_opts
\* relationship has no delete cascade: the foreign key of the ActionOptRecords
\* is set to NULL.
CascadeDelete(d, aid) ==
    LET rvs == ReviewablesOf(d, aid)
        rs  == ReviewsOf(d, aid) \cup UNION {ReviewsOfReviewable(d, v) : v \in rvs}
    IN [d EXCEPT
          !.actions = Drop(@, {aid}),
          !.reviews = Drop(@, rs),
          !.reviewables = Drop(@, rvs),
          !.action_reviews = {p \in @ : p[1] # aid},
          !.action_reviewables = {p \in @ : p[1] # aid},
          !.reviewable_reviews = {p \in @ : p[1] \notin rvs},
          !.action_opts = [o \in DOMAIN @ |->
                              IF @[o].action_id = aid
                              THEN [@[o] EXCEPT !.action_id = NoId] ELSE @[o]]]

RECURSIVE CascadeDeleteAll(_, _)
CascadeDeleteAll(d, as) ==
    IF as = {} THEN d
    ELSE LET a == CHOOSE x \in as : TRUE
         IN CascadeDeleteAll(CascadeDelete(d, a), as \ {a})

ActionsOfEpisode(d, eid) == {a \in DOMAIN d.actions : d.actions[a].episode_id = eid}

\* the store, the Episode object, the next unused id, and whether the call
\* returned (TRUE) or raised
Result(d, e, next, ok) == [db |-> d, ep |-> e, next |-> next, ok |-> ok]

\* ActionEvent.delete: ValueError when the store has no row of the event
ActionDeleteOp(d, e, ev, next) ==
    IF ev.id \in DOMAIN d.actions
    THEN Result(CascadeDelete(d, ev.id), e, next, TRUE)
    ELSE Result(d, e, next, FALSE)

\* Episode.delete: the deletes of the ActionRecords are committed together
\* with the delete of the EpisodeRecord, or not at all
EpisodeDeleteOp(d, e, next) ==
    IF e.id \in DOMAIN d.episodes
    THEN Result([CascadeDeleteAll(d, ActionsOfEpisode(d, e.id))
                   EXCEPT !.episodes = Drop(@, {e.id})], e, next, TRUE)
    ELSE Result(d, e, next, FALSE)

----------------------------------------------------------------------------
(* Episode operations, each run by the one client from call to return.     *)
(* An operation maps the store and the Episode object to a Result.         *)

\* the loops over self.actions: the store, the events gone through, the next
\* unused id, and whether no save() has raised
Loop(d, next) == [db |-> d, actions |-> <<>>, next |-> next, ok |-> TRUE]

\* st is the outcome of event.save()
Saved(acc, st) ==
    [acc EXCEPT !.db = st.db, !.actions = Append(@, st.ev), !.ok = st.out # "error"]

\* for action in self.actions: action.episode_id = self.id; action.save()
RECURSIVE SaveActions(_, _, _)
SaveActions(acc, todo, eid) ==
    IF todo = <<>> \/ ~acc.ok THEN [acc EXCEPT !.actions = @ \o todo]
    ELSE SaveActions(Saved(acc, ActionSave(acc.db, [Head(todo) EXCEPT !.episode_id = eid],
                                           "client")),
                     Tail(todo), eid)

\* db.merge(self.to_record()); db.commit().  The record carries actions=[...]:
\* the merge sets the actions collection of a persisted EpisodeRecord to the
\* in-memory list, and every ActionRecord of the episode that is not in the
\* list is deleted (cascade "all, delete-orphan")
EpisodeMerge(acc, e) ==
    LET orphans == IF e.id \in DOMAIN acc.db.episodes
                   THEN ActionsOfEpisode(acc.db, e.id) \ Ids(e.actions) ELSE {}
        e1 == [e EXCEPT !.actions = acc.actions]
    IN IF acc.ok
       THEN Result([CascadeDeleteAll(acc.db, orphans)
                      EXCEPT !.episodes = Put(@, e.id, [updated |-> e.updated])],
                   e1, acc.next, TRUE)
       ELSE Result(acc.db, e1, acc.next, FALSE)

\* Episode.save
EpisodeSaveOp(d, e, next) == EpisodeMerge(SaveActions(Loop(d, next), e.actions, e.id), e)

\* Mutant of DeleteAllActionsOp: the list is emptied and the Episode saved
\* without deleting the ActionRecords
EmptyListOnly(d, e, next) ==
    EpisodeSaveOp(d, [e EXCEPT !.actions = <<>>], next)

\* Episode.delete_all_actions: every ActionRecord of the episode is loaded
\* and deleted through ActionEvent.delete, the list is emptied, and the
\* Episode is saved
DeleteAllActionsOp(d, e, next) ==
    EpisodeSaveOp(CascadeDeleteAll(d, ActionsOfEpisode(d, e.id)),
                  [e EXCEPT !.actions = <<>>], next)

\* Episode.record_event after action.save(): append to the list, and the
\* minimal UPDATE of the EpisodeRecord, which matches a persisted row only
AppendEvent(st, e, next) ==
    LET now == e.updated + 1
    IN IF st.out = "error" THEN Result(st.db, e, next, FALSE)
       ELSE Result([st.db EXCEPT !.episodes =
                       [x \in DOMAIN @ |-> IF x = e.id THEN [@[x] EXCEPT !.updated = now]
                                           ELSE @[x]]],
                   [e EXCEPT !.actions = Append(@, st.ev), !.updated = now], next, TRUE)

\* Episode.record_event
RecordEventOp(d, e, action, next) ==
    AppendEvent(ActionSave(d, [action EXCEPT !.episode_id = e.id], "client"), e, next)

\* st is the outcome of event.post_review(...); had: the event had a review
\* of the pair, so that no new Review was made
Posted(acc, st, had) ==
    [Saved(acc, st) EXCEPT !.next = IF had THEN @ ELSE @ + 1]

\* event.post_review(...) for the events at the indices idxs, in list order
RECURSIVE ReviewEach(_, _, _, _, _)
ReviewEach(acc, todo, idxs, rv, approved) ==
    IF todo = <<>> \/ ~acc.ok THEN [acc EXCEPT !.actions = @ \o todo]
    ELSE IF Len(acc.actions) + 1 \notin idxs
    THEN ReviewEach([acc EXCEPT !.actions = Append(@, Head(todo))], Tail(todo),
                    idxs, rv, approved)
    ELSE ReviewEach(Posted(acc,
                           ActionSave(acc.db,
                                      PostReviewMem(Head(todo), rv[1], rv[2], approved,
                                                    rv[3], acc.next),
                                      "client"),
                           HasReviewBy(Head(todo), rv[1], rv[2])),
                    Tail(todo), idxs, rv, approved)

\* the end of approve_all / fail_all / approve_prior / fail_prior: self.save()
ThenSave(acc, e, andSave) ==
    IF andSave /\ acc.ok
    THEN EpisodeSaveOp(acc.db, [e EXCEPT !.actions = acc.actions], acc.next)
    ELSE Result(acc.db, [e EXCEPT !.actions = acc.actions], acc.next, acc.ok)

ReviewOp(d, e, next, idxs, rv, approved, andSave) ==
    ThenSave(ReviewEach(Loop(d, next), e.actions, idxs, rv, approved), e, andSave)

\* the end of post_reviewable / add_actionOpt: st is the outcome of self.save()
Changed(st, e, i, next) ==
    Result(st.db, [e EXCEPT !.actions[i] = st.ev], next, st.out # "error")

\* Mutant of IndexOf: an id that no event has counts as the last index
IndexOrLast(e, event_id) ==
    IF \E i \in DOMAIN e.actions : e.actions[i].id = event_id
    THEN CHOOSE i \in DOMAIN e.actions :
            /\ e.actions[i].id = event_id
            /\ \A j \in DOMAIN e.actions : e.actions[j].id = event_id => i <= j
    ELSE Len(e.actions)

IndexOf(e, event_id) ==
    IF \E i \in DOMAIN e.actions : e.actions[i].id = event_id
    THEN CHOOSE i \in DOMAIN e.actions :
            /\ e.actions[i].id = event_id
            /\ \A j \in DOMAIN e.actions : e.actions[j].id = event_id => i <= j
    ELSE 0

\* Mutant of Visible: the hidden flag of the events is not looked at
VisibleOrHidden(e, withHidden) == DOMAIN e.actions

Visible(e, withHidden) == {i \in DOMAIN e.actions : withHidden \/ ~e.actions[i].hidden}

\* Episode.approve_one / fail_one: the first event with the id, if any
ReviewOneIdxs(e, event_id) == {IndexOf(e, event_id)} \cap DOMAIN e.actions

\* Episode.approve_all / fail_all
ReviewAllIdxs(e, withHidden) == Visible(e, withHidden)

\* Mutant of ReviewPriorIdxs: range(target_index) instead of
\* range(target_index + 1), the target itself is left out
PriorIdxsWithoutTarget(e, event_id, withHidden) ==
    {i \in Visible(e, withHidden) : i < IndexOf(e, event_id)}

\* Episode.approve_prior / fail_prior (the target is in the list)
ReviewPriorIdxs(e, event_id, withHidden) ==
    {i \in Visible(e, withHidden) : i <= IndexOf(e, event_id)}

----------------------------------------------------------------------------
(* Specification SpecEpisode: one client builds an Episode and works on it *)

NoAction ==
    [id |-> NoId, flagged |-> FALSE, hidden |-> FALSE, episode_id |-> NoId,
     reviews |-> <<>>, reviewables |-> <<>>, action_opts |-> <<>>]

InitEpisode ==
    /\ db = EmptyDb
    /\ nextId = [p \in Processes |-> IdBase(p) + (IF p = "client" THEN 1 ELSE 0)]
    /\ ep = [id |-> IdBase("client"), actions |-> <<>>, updated |-> 0]
    /\ mem = [w \in Writers |-> NoAction]
    /\ sess = [w \in Writers |-> IdleSession]
    /\ out = [w \in Writers |-> "none"]
    /\ nsaves = [p \in Processes |-> 0]
    /\ added = [w \in Writers |-> {}]
    /\ sawError = FALSE
    /\ lastOp = NoOp
    /\ lastCall = EmptyTable
    /\ arg = NoValue
    /\ v1 = NoValue
    /\ ret = NoValue

Op(name, target, ok) == [name |-> name, target |-> target, ok |-> ok]

\* a call that raises before it has changed anything
Raised == Result(db, ep, nextId["client"], FALSE)

Once == "once"
Twice == "more than once"

Called(key, approved, reason) ==
    [approved |-> approved, reason |-> reason,
     n |-> IF key \in DOMAIN lastCall THEN Twice ELSE Once,
     changed |-> /\ key \in DOMAIN lastCall
                 /\ <<lastCall[key].approved, lastCall[key].reason>> # <<approved, reason>>]

\* the post_review calls made on the events at idxs
NoteCalls(e, idxs, rv, approved) ==
    [k \in (DOMAIN lastCall) \cup {<<e.actions[i].id, rv[1], rv[2]>> : i \in idxs} |->
        IF \E i \in idxs : k = <<e.actions[i].id, rv[1], rv[2]>>
        THEN Called(k, approved, rv[3]) ELSE lastCall[k]]

\* the client has made the call `name`: res is its Result, calls the
\* post_review calls made so far
Effect(name, target, res, calls) ==
    /\ nsaves["client"] < MaxEpisodeOps
    /\ nsaves' = [nsaves EXCEPT !["client"] = @ + 1]
    /\ db' = res.db
    /\ ep' = res.ep
    /\ nextId' = [nextId EXCEPT !["client"] = res.next]
    /\ lastOp' = Op(name, target, res.ok)
    /\ lastCall' = calls
    /\ UNCHANGED <<mem, sess, out, added, sawError, arg, v1, ret>>

\* the reviews handed to the constructor of a new ActionEvent: none, or one
\* whose resource_id is not set, or one that points to another resource
InitialReviews(id) ==
    {<<>>} \cup
    {<<[NewReview(id, "alice", "human", TRUE, "None", rid) EXCEPT !.resource_type = "None"]>> :
        rid \in {NoId, ForeignId}}

InitialReviewables(id) ==
    {<<>>, <<[id |-> id, type |-> "AnnotationReviewable", resource_type |-> "action",
              resource_id |-> NoId, reviews |-> <<>>]>>}

\* the constructor arguments of the recorded events: a plain or a hidden event,
\* or an event that is given a review and a reviewable
NewEvents(id) ==
    {[NoAction EXCEPT !.id = id, !.hidden = h] : h \in BOOLEAN} \cup
    {[NoAction EXCEPT !.id = id, !.reviews = rs, !.reviewables = vs] :
        rs \in InitialReviews(id + 1) \ {<<>>}, vs \in InitialReviewables(id + 2) \ {<<>>}}

\* Episode.record / Episode.record_event with a new ActionEvent
Record(action) ==
    /\ Len(ep.actions) < MaxActions
    /\ Effect("Episode.record", action.id,
              RecordEventOp(db, ep, action, action.id + 3), lastCall)

\* ActionEvent.post_review called on an event of the episode
PostReviewOn(i, rv, approved) ==
    /\ i \in DOMAIN ep.actions
    /\ Effect("ActionEvent.post_review", ep.actions[i].id,
              ReviewOp(db, ep, nextId["client"], {i}, rv, approved, FALSE),
              NoteCalls(ep, {i}, rv, approved))

\* Episode.approve_one (approved) / Episode.fail_one
ReviewOne(event_id, rv, approved) ==
    Effect(IF approved THEN "Episode.approve_one" ELSE "Episode.fail_one", event_id,
           ReviewOp(db, ep, nextId["client"], ReviewOneIdxs(ep, event_id), rv, approved, FALSE),
           NoteCalls(ep, ReviewOneIdxs(ep, event_id), rv, approved))

\* Episode.approve_all (approved) / Episode.fail_all
ReviewAll(rv, approved, withHidden) ==
    Effect(IF approved THEN "Episode.approve_all" ELSE "Episode.fail_all", NoId,
           ReviewOp(db, ep, nextId["client"], ReviewAllIdxs(ep, withHidden), rv, approved, TRUE),
           NoteCalls(ep, ReviewAllIdxs(ep, withHidden), rv, approved))

\* Episode.approve_prior (approved) / Episode.fail_prior: ValueError when the
\* event is not in the list
ReviewPrior(event_id, rv, approved, withHidden) ==
    Effect(IF approved THEN "Episode.approve_prior" ELSE "Episode.fail_prior", event_id,
           IF IndexOf(ep, event_id) = 0 THEN Raised
           ELSE ReviewOp(db, ep, nextId["client"], ReviewPriorIdxs(ep, event_id, withHidden),
                         rv, approved, TRUE),
           IF IndexOf(ep, event_id) = 0 THEN lastCall
           ELSE NoteCalls(ep, ReviewPriorIdxs(ep, event_id, withHidden), rv, approved))

\* ActionEvent.post_reviewable called on an event of the episode: ValueError
\* when the type tag is not registered
PostReviewableOn(i, type) ==
    /\ i \in DOMAIN ep.actions
    /\ Effect("ActionEvent.post_reviewable", ep.actions[i].id,
              IF RegisteredClass(type) = "None" THEN Raised
              ELSE Changed(ActionSave(db, PostReviewableMem(ep.actions[i], type,
                                                            nextId["client"]),
                                      "client"),
                           ep, i, nextId["client"] + 1),
              lastCall)

\* ActionEvent.add_actionOpt called on an event of the episode
AddActionOptOn(i) ==
    /\ i \in DOMAIN ep.actions
    /\ Effect("ActionEvent.add_actionOpt", ep.actions[i].id,
              Changed(ActionSave(db, AddActionOptMem(ep.actions[i], nextId["client"]),
                                 "client"),
                      ep, i, nextId["client"] + 1),
              lastCall)

\* Episode.save
EpisodeSave ==
    Effect("Episode.save", ep.id, EpisodeSaveOp(db, ep, nextId["client"]), lastCall)

\* Episode.delete
EpisodeDelete ==
    Effect("Episode.delete", ep.id, EpisodeDeleteOp(db, ep, nextId["client"]), lastCall)

\* Episode.delete_all_actions
EpisodeDeleteAllActions ==
    Effect("Episode.delete_all_actions", ep.id,
           DeleteAllActionsOp(db, ep, nextId["client"]), lastCall)

\* ActionEvent.delete called on an event of the episode
ActionDelete(i) ==
    /\ i \in DOMAIN ep.actions
    /\ Effect("ActionEvent.delete", ep.actions[i].id,
              ActionDeleteOp(db, ep, ep.actions[i], nextId["client"]), lastCall)

\* the calls of post_review: an approval without a reason, a failure with one
ReviewArgs == {<<"alice", t, "None", TRUE>> : t \in ReviewerTypes} \cup
              {<<"alice", t, "why", FALSE>> : t \in ReviewerTypes}
BulkArgs == {"alice"} \X ReviewerTypes \X {"None"}
EventIds == Ids(ep.actions) \cup {ForeignId}
\* the type tags handed to post_reviewable: the registered ones and another
TypeTags == (DOMAIN reviewable_string_map) \cup {"OtherReviewableType"}

NextEpisode ==
    \/ \E action \in NewEvents(nextId["client"]) : Record(action)
    \/ \E i \in 1..MaxActions, rv \in ReviewArgs : PostReviewOn(i, rv, rv[4])
    \/ \E id \in EventIds, rv \in BulkArgs, a \in BOOLEAN : ReviewOne(id, rv, a)
    \/ \E rv \in BulkArgs, a \in BOOLEAN, h \in BOOLEAN : ReviewAll(rv, a, h)
    \/ \E id \in EventIds, rv \in BulkArgs, a \in BOOLEAN, h \in BOOLEAN :
          ReviewPrior(id, rv, a, h)
    \/ \E i \in 1..MaxActions, t \in TypeTags : PostReviewableOn(i, t)
    \/ \E i \in 1..MaxActions : AddActionOptOn(i)
    \/ EpisodeSave
    \/ EpisodeDelete
    \/ \E i \in 1..MaxActions : ActionDelete(i)
    \/ EpisodeDeleteAllActions

SpecEpisode == InitEpisode /\ [][NextEpisode]_vars

----------------------------------------------------------------------------
(* Properties of the Episode operations (specification SpecEpisode) *)

ReviewsBy(reviews, reviewer, reviewer_type) ==
    SelectSeq(reviews, LAMBDA r : r.reviewer = reviewer /\ r.reviewer_type = reviewer_type)

EventWithId(id) == ep.actions[IndexOf(ep, id)]

\* C3: after any sequence of post_review calls of the one client with the
\* same (reviewer, reviewer_type) on the same ActionEvent, made directly or
\* through approve_one / fail_one / approve_all / fail_all / approve_prior /
\* fail_prior, the review list of the event holds exactly one Review of the
\* pair, and its approved and reason are those of the last call; the same
\* holds of the reviews the store associates with the event.
C3_OneReviewWithLastVerdict ==
    \A k \in {c \in DOMAIN lastCall : c[1] \in Ids(ep.actions)} :
        LET mine == ReviewsBy(EventWithId(k[1]).reviews, k[2], k[3])
            rows == {r \in ReviewsOf(db, k[1]) :
                        db.reviews[r].reviewer = k[2] /\ db.reviews[r].reviewer_type = k[3]}
        IN /\ Len(mine) = 1
           /\ mine[1].approved = lastCall[k].approved
           /\ mine[1].reason = lastCall[k].reason
           /\ k[1] \in DOMAIN db.actions =>
                 /\ rows = {mine[1].id}
                 /\ db.reviews[mine[1].id].approved = lastCall[k].approved
                 /\ db.reviews[mine[1].id].reason = lastCall[k].reason

\* a pair has reviewed an event more than once, the last time with another
\* verdict or reason than before, and the event has the one review of the pair
C3_Witness ==
    \E k \in DOMAIN lastCall :
        /\ lastCall[k].n = Twice
        /\ lastCall[k].changed
        /\ Len(ReviewsBy(EventWithId(k[1]).reviews, k[2], k[3])) = 1
        /\ k[1] \in DOMAIN db.actions

\* C6: after ActionEvent.save() has returned, every Review and Reviewable in
\* the collections of the event has resource_id equal to the id of the event
\* and every ActionOpt has action_id equal to it, whatever resource_id the
\* child carried before the save.  (Every event of the episode has been saved.)
C6_ChildrenPointToEvent ==
    \A i \in DOMAIN ep.actions :
        LET ev == ep.actions[i]
        IN /\ \A j \in DOMAIN ev.reviews : ev.reviews[j].resource_id = ev.id
           /\ \A j \in DOMAIN ev.reviewables : ev.reviewables[j].resource_id = ev.id
           /\ \A j \in DOMAIN ev.action_opts : ev.action_opts[j].action_id = ev.id

\* the rows of the reviews and reviewables of an ActionEvent: those the
\* association tables link to it and those that point to it
ReviewRowsOf(d, aid) ==
    ReviewsOf(d, aid) \cup {r \in DOMAIN d.reviews : d.reviews[r].resource_id = aid}

ReviewableRowsOf(d, aid) ==
    ReviewablesOf(d, aid) \cup {v \in DOMAIN d.reviewables : d.reviewables[v].resource_id = aid}

Returned(name) ==
    /\ nsaves'["client"] # nsaves["client"]
    /\ lastOp'.name = name
    /\ lastOp'.ok

\* the last step was a call of the operation name on target, which returned
\* or raised
Stepped(name, target) ==
    /\ nsaves'["client"] # nsaves["client"]
    /\ lastOp'.name = name
    /\ lastOp'.target = target

\* what the store holds of an ActionEvent
Held(d, aid) ==
    [row |-> d.actions[aid],
     reviews |-> [r \in ReviewsOf(d, aid) |-> d.reviews[r]],
     reviewables |-> [v \in ReviewablesOf(d, aid) |->
                         [row |-> d.reviewables[v],
                          reviews |-> [r \in ReviewsOfReviewable(d, v) |-> d.reviews[r]]]],
     action_opts |-> [o \in OptsOf(d, aid) |-> d.action_opts[o]]]

ReviewedBy(ev, rv, approved) ==
    /\ Len(ReviewsBy(ev.reviews, rv[1], rv[2])) = 1
    /\ ReviewsBy(ev.reviews, rv[1], rv[2])[1].approved = approved

\* the store associates exactly one review of the pair rv with the
\* ActionEvent aid, with the verdict approved
StoredReviewBy(d, aid, rv, approved) ==
    \E r \in ReviewsOf(d, aid) :
        /\ d.reviews[r].reviewer = rv[1] /\ d.reviews[r].reviewer_type = rv[2]
        /\ d.reviews[r].approved = approved
        /\ \A q \in ReviewsOf(d, aid) :
              (d.reviews[q].reviewer = rv[1] /\ d.reviews[q].reviewer_type = rv[2]) => q = r

\* what the store holds of the reviews of an ActionEvent
HeldReviews(d, aid) == [r \in ReviewsOf(d, aid) |-> d.reviews[r]]

\* the events at the indices in idxs have the review of rv, in memory and in
\* the store, and the reviews of all other events are as they were
ReviewedExactly(idxs, rv, approved) ==
    \A i \in DOMAIN ep.actions :
        IF i \in idxs
        THEN /\ ReviewedBy(ep'.actions[i], rv, approved)
             /\ StoredReviewBy(db', ep.actions[i].id, rv, approved)
        ELSE /\ ep'.actions[i].reviews = ep.actions[i].reviews
             /\ ep.actions[i].id \in DOMAIN db.actions =>
                   HeldReviews(db', ep.actions[i].id) = HeldReviews(db, ep.actions[i].id)

\* C12 as stated: approve_prior / fail_prior (target at index k) post the
\* review on exactly the events at the indices up to k, and add or change no
\* review of an event behind k.
C12_PriorReviewsAllUpToTarget ==
    [][\A id \in EventIds, rv \in BulkArgs, a \in BOOLEAN, h \in BOOLEAN :
          (/\ Stepped(IF a THEN "Episode.approve_prior" ELSE "Episode.fail_prior", id)
           /\ IndexOf(ep, id) # 0
           /\ ReviewPrior(id, rv, a, h))
             => ReviewedExactly({i \in DOMAIN ep.actions : i <= IndexOf(ep, id)}, rv, a)]_vars

\* C12, amended: approve_prior / fail_prior (target at index k) post the
\* review on exactly the events at the indices up to k that are not hidden
\* (on all of them when approve_hidden / fail_hidden is set), and add or
\* change no review of any other event, in particular of none behind k.
C12_PriorReviewsVisibleUpToTarget ==
    [][\A id \in EventIds, rv \in BulkArgs, a \in BOOLEAN, h \in BOOLEAN :
          (/\ Stepped(IF a THEN "Episode.approve_prior" ELSE "Episode.fail_prior", id)
           /\ IndexOf(ep, id) # 0
           /\ ReviewPrior(id, rv, a, h))
             => ReviewedExactly({i \in DOMAIN ep.actions :
                                    /\ i <= IndexOf(ep, id)
                                    /\ (h \/ ~ep.actions[i].hidden)}, rv, a)]_vars

\* approve_prior / fail_prior has returned for a target that is not the last
\* event: the target has the reviewer's review, the event behind it has none
C12_Witness ==
    /\ lastOp.name \in {"Episode.approve_prior", "Episode.fail_prior"}
    /\ lastOp.ok
    /\ \E k \in DOMAIN ep.actions :
          /\ ep.actions[k].id = lastOp.target
          /\ k < Len(ep.actions)
          /\ ReviewedBy(ep.actions[k], <<"alice", "human">>,
                        lastOp.name = "Episode.approve_prior")
          /\ ReviewsBy(ep.actions[k + 1].reviews, "alice", "human") = <<>>

\* C13: approve_all / fail_all post the reviewer's review on every event that
\* is not hidden; hidden events keep their reviews when approve_hidden /
\* fail_hidden is False and are reviewed too when it is True.  approve_prior /
\* fail_prior treat the hidden events at the indices up to the target's the
\* same way.
C13_HiddenSkipped ==
    [][\A rv \in BulkArgs, a \in BOOLEAN, h \in BOOLEAN :
          /\ (/\ Stepped(IF a THEN "Episode.approve_all" ELSE "Episode.fail_all", NoId)
              /\ ReviewAll(rv, a, h))
                => ReviewedExactly({i \in DOMAIN ep.actions : h \/ ~ep.actions[i].hidden},
                                   rv, a)
          /\ \A id \in Ids(ep.actions) :
                (/\ Stepped(IF a THEN "Episode.approve_prior" ELSE "Episode.fail_prior", id)
                 /\ ReviewPrior(id, rv, a, h))
                   => \A i \in DOMAIN ep.actions :
                         (ep.actions[i].hidden /\ i <= IndexOf(ep, id))
                            => IF h THEN ReviewedBy(ep'.actions[i], rv, a)
                               ELSE ep'.actions[i].reviews = ep.actions[i].reviews]_vars

\* approve_all / fail_all has returned on an episode with a hidden event that
\* has no review of the reviewer and an event that is not hidden and has it
C13_Witness ==
    /\ lastOp.name \in {"Episode.approve_all", "Episode.fail_all"}
    /\ lastOp.ok
    /\ \E i \in DOMAIN ep.actions, j \in DOMAIN ep.actions :
          /\ ep.actions[i].hidden
          /\ ReviewsBy(ep.actions[i].reviews, "alice", "human") = <<>>
          /\ ~ep.actions[j].hidden
          /\ ReviewedBy(ep.actions[j], <<"alice", "human">>,
                        lastOp.name = "Episode.approve_all")

\* C14: approve_prior / fail_prior with an event id that is not in the action
\* list of the Episode raise; no review list is changed and nothing is
\* written to the store.
C14_PriorOfAbsentEventRaises ==
    [][\A id \in EventIds, rv \in BulkArgs, a \in BOOLEAN, h \in BOOLEAN :
          (/\ Stepped(IF a THEN "Episode.approve_prior" ELSE "Episode.fail_prior", id)
           /\ id \notin Ids(ep.actions)
           /\ ReviewPrior(id, rv, a, h))
             => /\ ~lastOp'.ok
                /\ db' = db
                /\ ep' = ep]_vars

\* approve_prior / fail_prior has raised for an id that no event of the
\* episode has, on an episode that has events
C14_Witness ==
    /\ lastOp.name \in {"Episode.approve_prior", "Episode.fail_prior"}
    /\ ~lastOp.ok
    /\ lastOp.target \notin Ids(ep.actions)
    /\ ep.actions # <<>>
    /\ DOMAIN db.actions # {}

\* C15: approve_one / fail_one with an event id that no event of the Episode
\* has raise an error to the caller; the call does not return normally.
C15_OneOfAbsentEventRaises ==
    [][\A id \in EventIds, rv \in BulkArgs, a \in BOOLEAN :
          (/\ Stepped(IF a THEN "Episode.approve_one" ELSE "Episode.fail_one", id)
           /\ id \notin Ids(ep.actions)
           /\ ReviewOne(id, rv, a))
             => ~lastOp'.ok]_vars

\* C16: post_reviewable with a type tag that is not registered raises and
\* leaves the event's list and the store as they were; with a registered tag
\* it appends exactly one new Reviewable of the registered class, whose
\* resource_type is "action" and whose resource_id is the event's id, and
\* that Reviewable is persisted among the event's reviewables
C16_PostReviewableValidatesType ==
    [][\A i \in 1..MaxActions, t \in TypeTags :
          (/\ i \in DOMAIN ep.actions
           /\ Stepped("ActionEvent.post_reviewable", ep.actions[i].id)
           /\ PostReviewableOn(i, t)) =>
             IF t \notin DOMAIN reviewable_string_map
             THEN /\ ~lastOp'.ok
                  /\ db' = db
                  /\ ep' = ep
             ELSE /\ lastOp'.ok
                  /\ Len(ep'.actions[i].reviewables) = Len(ep.actions[i].reviewables) + 1
                  /\ SubSeq(ep'.actions[i].reviewables, 1, Len(ep.actions[i].reviewables))
                        = ep.actions[i].reviewables
                  /\ LET new == ep'.actions[i].reviewables[Len(ep'.actions[i].reviewables)]
                     IN  /\ new.id \notin Ids(ep.actions[i].reviewables)
                         /\ new.id \notin DOMAIN db.reviewables
                         /\ new.type = reviewable_type_map[t]
                         /\ new.resource_type = "action"
                         /\ new.resource_id = ep.actions[i].id
                         /\ new.id \in ReviewablesOf(db', ep.actions[i].id)
                         /\ db'.reviewables[new.id] = ReviewableToRecord(new)]_vars

\* a reviewable of a registered type was posted on an event that already held
\* one, and a call with an unregistered type has raised
C16_Witness ==
    /\ lastOp = Op("ActionEvent.post_reviewable", lastOp.target, FALSE)
    /\ \E i \in DOMAIN ep.actions :
          /\ ep.actions[i].id = lastOp.target
          /\ Len(ep.actions[i].reviewables) >= 2
          /\ ep.actions[i].reviewables[Len(ep.actions[i].reviewables)].type
                = "BoundingBoxReviewable"

----------------------------------------------------------------------------
(* The wire form of a Reviewable and of its Reviews *)

\* the longest list of nested Reviews a Reviewable is given
MaxNestedReviews == 1

\* the part of the state the constructors and conversions do not use
NoProgram ==
    /\ db = EmptyDb
    /\ nextId = [p \in Processes |-> IdBase(p)]
    /\ ep = NoEpisode
    /\ mem = [w \in Writers |-> NoAction]
    /\ sess = [w \in Writers |-> IdleSession]
    /\ out = [w \in Writers |-> "none"]
    /\ nsaves = [p \in Processes |-> 0]
    /\ added = [w \in Writers |-> {}]
    /\ sawError = FALSE
    /\ lastOp = NoOp
    /\ lastCall = EmptyTable

ProgramUnchanged ==
    UNCHANGED <<db, nextId, mem, sess, out, nsaves, added, sawError, ep, lastOp, lastCall>>

\* the values of Review.correction: None, a str (loads tells what json.loads
\* makes of it) or a dict; text stands for the content
Corrections ==
    {[kind |-> "none", text |-> "None", loads |-> "none"],
     [kind |-> "str", text |-> "move it left", loads |-> "JSONDecodeError"],
     [kind |-> "str", text |-> "7", loads |-> "int"],
     [kind |-> "str", text |-> "{x0: 1, x1: 2, y0: 1, y1: 2}", loads |-> "dict"],
     [kind |-> "dict", text |-> "{x0: 1, x1: 2, y0: 1, y1: 2}", loads |-> "none"]}

\* Review.to_v1: a str correction that parses as a JSON object goes out as
\* the parsed dict, every other field as it is
ReviewToV1(r) ==
    [id |-> r.id, reviewer |-> r.reviewer, approved |-> r.approved,
     reviewer_type |-> r.reviewer_type, reason |-> r.reason,
     parent_id |-> r.parent_id, resource_type |-> r.resource_type,
     resource_id |-> r.resource_id, with_resources |-> r.with_resources,
     correction |-> IF r.correction.kind = "str" /\ r.correction.loads = "dict"
                    THEN [kind |-> "dict", text |-> r.correction.text, loads |-> "none"]
                    ELSE r.correction,
     correction_schema |-> r.correction_schema,
     created |-> r.created, updated |-> r.updated]

\* Review.from_v1: every field is taken from the wire form
ReviewFromV1(v) ==
    [id |-> v.id, reviewer |-> v.reviewer, approved |-> v.approved,
     reviewer_type |-> v.reviewer_type, reason |-> v.reason,
     parent_id |-> v.parent_id, resource_type |-> v.resource_type,
     resource_id |-> v.resource_id, with_resources |-> v.with_resources,
     correction |-> v.correction, correction_schema |-> v.correction_schema,
     created |-> v.created, updated |-> v.updated]

\* BoundingBoxReviewable.to_v1: metadata is not part of the V1 model
BoundingBoxToV1(x) ==
    [type |-> "BoundingBoxReviewable", img |-> x.img, target |-> x.target, bbox |-> x.bbox]

\* AnnotationReviewable.to_v1
AnnotationToV1(x) ==
    [type |-> "AnnotationReviewable", key |-> x.key, value |-> x.value,
     annotator |-> x.annotator, annotator_type |-> x.annotator_type]

\* Reviewable.to_v1Reviewable
to_v1Reviewable(x) ==
    [type |-> x.type,
     id |-> x.id,
     resource_type |-> x.resource_type,
     resource_id |-> x.resource_id,
     reviewable |-> IF x.type = "BoundingBoxReviewable"
                    THEN BoundingBoxToV1(x) ELSE AnnotationToV1(x),
     reviews |-> [i \in DOMAIN x.reviews |-> ReviewToV1(x.reviews[i])],
     created |-> x.created,
     updated |-> x.updated]

\* Reviewable.from_v1Reviewable: the class is looked up in the registry, its
\* from_v1 builds the instance from the V1 model without calling __init__
\* (BoundingBoxReviewable.from_v1 sets img, target and bbox only), and the
\* standard fields are set from the wire form
from_v1Reviewable(w) ==
    IF w.type \notin DOMAIN reviewable_type_map
    THEN [kind |-> "ValueError"]
    ELSE IF reviewable_type_map[w.type] = "BoundingBoxReviewable"
    THEN [type |-> reviewable_type_map[w.type],
          img |-> w.reviewable.img, target |-> w.reviewable.target,
          bbox |-> w.reviewable.bbox,
          id |-> w.id, resource_type |-> w.resource_type,
          resource_id |-> w.resource_id,
          reviews |-> [i \in DOMAIN w.reviews |-> ReviewFromV1(w.reviews[i])],
          created |-> w.created, updated |-> w.updated]
    ELSE [type |-> reviewable_type_map[w.type],
          key |-> w.reviewable.key, value |-> w.reviewable.value,
          annotator |-> w.reviewable.annotator,
          annotator_type |-> w.reviewable.annotator_type,
          id |-> w.id, resource_type |-> w.resource_type,
          resource_id |-> w.resource_id,
          reviews |-> [i \in DOMAIN w.reviews |-> ReviewFromV1(w.reviews[i])],
          created |-> w.created, updated |-> w.updated]

\* Reviewable._save_review: the Review a Reviewable holds
NestedReview(id, resource_id, approved, correction) ==
    [id |-> id, reviewer |-> "alice", approved |-> approved,
     reviewer_type |-> "human", reason |-> "None", parent_id |-> NoId,
     resource_type |-> "reviewable", resource_id |-> resource_id,
     with_resources |-> <<>>, correction |-> correction,
     correction_schema |-> "V1 schema", created |-> 1, updated |-> 0]

\* the lists of nested Reviews of the Reviewable with the given id
NestedReviews(id) ==
    UNION {[1..n -> {NestedReview(id + 1, id, a, c) : a \in BOOLEAN, c \in Corrections}]
             : n \in 0..MaxNestedReviews}

\* Reviewable.__init__ and the constructors of the two registered variants
Reviewables ==
    {[type |-> "BoundingBoxReviewable", img |-> "img", target |-> "button",
      bbox |-> "x0=1, x1=2, y0=1, y1=2", metadata |-> m,
      id |-> FirstFreeId, resource_type |-> "action", resource_id |-> SharedId,
      reviews |-> rs, created |-> 1, updated |-> u]
        : m \in {"None", "meta"}, rs \in NestedReviews(FirstFreeId), u \in {0, 2}}
    \cup
    {[type |-> "AnnotationReviewable", key |-> "k", value |-> "v",
      annotator |-> a, annotator_type |-> "agent",
      id |-> FirstFreeId, resource_type |-> "action", resource_id |-> SharedId,
      reviews |-> rs, created |-> 1, updated |-> u]
        : a \in {"None", "alice"}, rs \in NestedReviews(FirstFreeId), u \in {0, 2}}

InitReviewable ==
    /\ NoProgram
    /\ arg \in Reviewables
    /\ v1 = NoValue
    /\ ret = NoValue

\* x.to_v1Reviewable()
ToWire ==
    /\ v1 = NoValue
    /\ v1' = to_v1Reviewable(arg)
    /\ UNCHANGED <<arg, ret>>
    /\ ProgramUnchanged

\* Reviewable.from_v1Reviewable(...) of the wire form
FromWire ==
    /\ v1 # NoValue
    /\ ret = NoValue
    /\ ret' = from_v1Reviewable(v1)
    /\ UNCHANGED <<arg, v1>>
    /\ ProgramUnchanged

NextReviewable ==
    \/ ToWire
    \/ FromWire

SpecReviewable == InitReviewable /\ [][NextReviewable]_vars

\* C17: for every value x of a registered Reviewable variant,
\* Reviewable.from_v1Reviewable(x.to_v1Reviewable()) equals x in all fields,
\* the nested Reviews and their correction values included
C17_WireRoundTrip ==
    ret # NoValue => ret = arg

----------------------------------------------------------------------------
(* Rating *)

\* the largest integer handed to the constructor of Rating
MaxRating == 6

\* the defaults of Rating.__init__
rating_upper_bound == 5
rating_lower_bound == 1

\* the keyword arguments of a call of Rating(...): rating, and each bound
\* either given or left to its default
RatingCalls ==
    {[rating |-> r] : r \in 0..MaxRating}
    \cup {[rating |-> r, rating_lower_bound |-> lo] : r \in 0..MaxRating, lo \in 0..MaxRating}
    \cup {[rating |-> r, rating_upper_bound |-> hi] : r \in 0..MaxRating, hi \in 0..MaxRating}
    \cup {[rating |-> r, rating_lower_bound |-> lo, rating_upper_bound |-> hi]
            : r \in 0..MaxRating, lo \in 0..MaxRating, hi \in 0..MaxRating}

\* the bounds a call of Rating(...) runs with
UpperBound(kw) ==
    IF "rating_upper_bound" \in DOMAIN kw THEN kw.rating_upper_bound ELSE rating_upper_bound

LowerBound(kw) ==
    IF "rating_lower_bound" \in DOMAIN kw THEN kw.rating_lower_bound ELSE rating_lower_bound

\* Mutant of Rating: the upper bound itself is rejected
RatingBelowUpperBound(kw) ==
    IF kw.rating >= UpperBound(kw) \/ kw.rating < LowerBound(kw)
    THEN [kind |-> "ValueError"]
    ELSE [kind |-> "Rating", rating |-> kw.rating,
          rating_upper_bound |-> UpperBound(kw), rating_lower_bound |-> LowerBound(kw)]

\* Rating.__init__: ValueError when the rating is outside the bounds
Rating(kw) ==
    IF kw.rating > UpperBound(kw) \/ kw.rating < LowerBound(kw)
    THEN [kind |-> "ValueError"]
    ELSE [kind |-> "Rating", rating |-> kw.rating,
          rating_upper_bound |-> UpperBound(kw), rating_lower_bound |-> LowerBound(kw)]

InitRating ==
    /\ NoProgram
    /\ arg \in RatingCalls
    /\ v1 = NoValue
    /\ ret = NoValue

\* the call Rating(**arg)
Construct ==
    /\ ret = NoValue
    /\ ret' = Rating(arg)
    /\ UNCHANGED <<arg, v1>>
    /\ ProgramUnchanged

NextRating ==
    Construct

SpecRating == InitRating /\ [][NextRating]_vars

\* C18: Rating(rating=r, rating_lower_bound=lo, rating_upper_bound=hi) raises
\* if and only if r < lo or r > hi; with the default bounds the ratings 1..5
\* are accepted and every other one (0 and 6 among them) is rejected
C18_RatingWithinBounds ==
    ret # NoValue =>
        /\ DOMAIN arg = {"rating", "rating_lower_bound", "rating_upper_bound"} =>
              (ret.kind = "ValueError" <=>
                   \/ arg.rating < arg.rating_lower_bound
                   \/ arg.rating > arg.rating_upper_bound)
        /\ DOMAIN arg = {"rating"} =>
              (ret.kind = "ValueError" <=> arg.rating \notin 1..5)
        /\ ret.kind = "Rating" => ret.rating = arg.rating

\* a call that gave both bounds, with the rating equal to the upper bound and
\* above the lower one, was accepted
C18_Witness ==
    /\ ret # NoValue
    /\ ret.kind = "Rating"
    /\ DOMAIN arg = {"rating", "rating_lower_bound", "rating_upper_bound"}
    /\ arg.rating = arg.rating_upper_bound
    /\ arg.rating > arg.rating_lower_bound

\* C19: when Episode.delete_all_actions() returns, the row of the Episode is
\* persisted, the in-memory list of actions is empty, the store has no
\* ActionEvent row with the episode's id, and the Reviews and Reviewables of
\* the deleted events are gone with them
C19_DeleteAllActions ==
    [][Returned("Episode.delete_all_actions") =>
          /\ ep'.id = ep.id
          /\ ep.id \in DOMAIN db'.episodes
          /\ ep'.actions = <<>>
          /\ ActionsOfEpisode(db', ep.id) = {}
          /\ \A a \in ActionsOfEpisode(db, ep.id) :
                /\ a \notin DOMAIN db'.actions
                /\ ReviewRowsOf(db, a) \cap DOMAIN db'.reviews = {}
                /\ ReviewableRowsOf(db, a) \cap DOMAIN db'.reviewables = {}
                /\ \A v \in ReviewableRowsOf(db, a) :
                      ReviewsOfReviewable(db, v) \cap DOMAIN db'.reviews = {}]_vars

\* delete_all_actions() has returned for an episode on whose events reviews
\* had been posted: the Episode row is there, and no row of an event, a
\* Review or a Reviewable
C19_Witness ==
    /\ lastOp.name = "Episode.delete_all_actions"
    /\ lastOp.ok
    /\ lastCall # EmptyTable
    /\ nextId["client"] > IdBase("client") + 3
    /\ ep.id \in DOMAIN db.episodes
    /\ ep.actions = <<>>
    /\ DOMAIN db.actions = {}
    /\ DOMAIN db.reviews = {}
    /\ DOMAIN db.reviewables = {}

\* C20: when Episode.record_event / Episode.record returns, whether or not
\* the Episode was saved before, the ActionEvent is persisted with the
\* episode's id as its episode_id, it is the last element of the in-memory
\* list, the persisted row of the Episode has the in-memory value of updated,
\* and no other ActionEvent of the episode is rewritten
C20_RecordPersistsEventAndUpdated ==
    [][Returned("Episode.record") =>
          LET a == lastOp'.target
          IN /\ a \in DOMAIN db'.actions
             /\ db'.actions[a].episode_id = ep.id
             /\ Len(ep'.actions) = Len(ep.actions) + 1
             /\ SubSeq(ep'.actions, 1, Len(ep.actions)) = ep.actions
             /\ ep'.actions[Len(ep'.actions)].id = a
             /\ ep.id \in DOMAIN db'.episodes
             /\ db'.episodes[ep.id].updated = ep'.updated
             /\ \A b \in DOMAIN db.actions \ {a} :
                   /\ b \in DOMAIN db'.actions
                   /\ Held(db', b) = Held(db, b)]_vars

----------------------------------------------------------------------------
(* An Episode constructed with an initial action list, or built by from_v1 *)

\* the events handed to Episode(actions=[...]) or read by Episode.from_v1:
\* built by the constructor of ActionEvent (no episode_id) or taken from a
\* wire form that names another episode, where its ActionOpt may name
\* another ActionEvent
InitialActions(id) ==
    {<<>>} \cup
    {<<[NoAction EXCEPT !.id = id, !.episode_id = e, !.action_opts = os]>> :
        e \in {NoId, ForeignId}, os \in {<<>>, <<[id |-> id + 1, action_id |-> ForeignId]>>}}

InitConstructed ==
    /\ db = EmptyDb
    /\ nextId = [p \in Processes |-> IdBase(p) + (IF p = "client" THEN 3 ELSE 0)]
    /\ \E as \in InitialActions(IdBase("client") + 1) :
          ep = [id |-> IdBase("client"), actions |-> as, updated |-> 0]
    /\ mem = [w \in Writers |-> NoAction]
    /\ sess = [w \in Writers |-> IdleSession]
    /\ out = [w \in Writers |-> "none"]
    /\ nsaves = [p \in Processes |-> 0]
    /\ added = [w \in Writers |-> {}]
    /\ sawError = FALSE
    /\ lastOp = NoOp
    /\ lastCall = EmptyTable
    /\ arg = NoValue
    /\ v1 = NoValue
    /\ ret = NoValue

NextConstructed ==
    \/ \E action \in NewEvents(nextId["client"]) : Record(action)
    \/ \E id \in EventIds, rv \in BulkArgs, a \in BOOLEAN : ReviewOne(id, rv, a)
    \/ \E rv \in BulkArgs, a \in BOOLEAN, h \in BOOLEAN : ReviewAll(rv, a, h)
    \/ \E i \in 1..MaxActions : AddActionOptOn(i)
    \/ EpisodeSave

SpecConstructed == InitConstructed /\ [][NextConstructed]_vars

\* C21: every ActionEvent in the action list of an Episode has episode_id
\* equal to the Episode's id, for every Episode reached by construction with
\* an initial action list, from_v1, record, record_event, save and the bulk
\* review operations
C21_OwnedEventsCarryEpisodeId ==
    \A i \in DOMAIN ep.actions : ep.actions[i].episode_id = ep.id

----------------------------------------------------------------------------
(* Deletes and gets by id *)

\* Mutant of DeleteRow: a missing row is not an error
DeleteRowIfPresent(d, e, table, id, next) ==
    Result([d EXCEPT ![table] = Drop(@, {id})], e, next, TRUE)

\* Review.delete, Rating.delete, ActionOpt.delete: the row with the object's
\* id is queried and deleted; ValueError when there is none
DeleteRow(d, e, table, id, next) ==
    IF id \in DOMAIN d[table]
    THEN Result([d EXCEPT ![table] = Drop(@, {id})], e, next, TRUE)
    ELSE Result(d, e, next, FALSE)

\* Episode.get_event: ValueError when no ActionRecord has the id
GetEventOp(d, e, id, next) ==
    Result(d, e, next, id \in DOMAIN d.actions)

\* Episode.delete_action: the event is taken out of the list first, then
\* ActionEvent.find(id=...)[0] raises IndexError when no row was found;
\* otherwise the event is deleted, updated is touched and the Episode saved
DeleteActionOp(d, e, id, next) ==
    IF id \in DOMAIN d.actions
    THEN EpisodeSaveOp(CascadeDelete(d, id),
                       [e EXCEPT !.actions = SelectSeq(@, LAMBDA a : a.id # id),
                                 !.updated = @ + 1], next)
    ELSE Result(d, [e EXCEPT !.actions = SelectSeq(@, LAMBDA a : a.id # id)], next, FALSE)

\* Review.delete called on a review of an event of the episode
ReviewDelete(i) ==
    /\ i \in DOMAIN ep.actions
    /\ ep.actions[i].reviews # <<>>
    /\ Effect("Review.delete", ep.actions[i].reviews[1].id,
              DeleteRow(db, ep, "reviews", ep.actions[i].reviews[1].id, nextId["client"]),
              lastCall)

\* ActionOpt.delete called on an ActionOpt of an event of the episode
ActionOptDelete(i) ==
    /\ i \in DOMAIN ep.actions
    /\ ep.actions[i].action_opts # <<>>
    /\ Effect("ActionOpt.delete", ep.actions[i].action_opts[1].id,
              DeleteRow(db, ep, "action_opts", ep.actions[i].action_opts[1].id,
                        nextId["client"]),
              lastCall)

\* Rating(...).save() of a new Rating
RatingSave ==
    /\ DOMAIN db.ratings = {}
    /\ Effect("Rating.save", nextId["client"],
              Result([db EXCEPT !.ratings = Put(@, nextId["client"],
                                                Rating([rating |-> rating_lower_bound]))],
                     ep, nextId["client"] + 1, TRUE),
              lastCall)

\* Rating.delete called on a saved Rating or on one that was never saved
RatingDelete(id) ==
    Effect("Rating.delete", id, DeleteRow(db, ep, "ratings", id, nextId["client"]), lastCall)

\* Episode.get_event
GetEvent(id) ==
    Effect("Episode.get_event", id, GetEventOp(db, ep, id, nextId["client"]), lastCall)

\* Episode.delete_action
DeleteAction(id) ==
    Effect("Episode.delete_action", id, DeleteActionOp(db, ep, id, nextId["client"]), lastCall)

NextById ==
    \/ \E action \in NewEvents(nextId["client"]) : Record(action)
    \/ \E i \in 1..MaxActions : AddActionOptOn(i)
    \/ EpisodeSave
    \/ EpisodeDelete
    \/ \E i \in 1..MaxActions : ActionDelete(i)
    \/ \E i \in 1..MaxActions : ReviewDelete(i)
    \/ \E i \in 1..MaxActions : ActionOptDelete(i)
    \/ RatingSave
    \/ \E id \in (DOMAIN db.ratings) \cup {ForeignId} : RatingDelete(id)
    \/ \E id \in EventIds : GetEvent(id)
    \/ \E id \in EventIds : DeleteAction(id)

SpecById == InitEpisode /\ [][NextById]_vars

\* the table that holds the row an operation deletes or gets
TableOf(name) ==
    CASE name \in {"ActionEvent.delete", "Episode.get_event", "Episode.delete_action"}
            -> "actions"
      [] name = "Episode.delete" -> "episodes"
      [] name = "Review.delete" -> "reviews"
      [] name = "Rating.delete" -> "ratings"
      [] name = "ActionOpt.delete" -> "action_opts"
      [] OTHER -> "none"

\* C22: ActionEvent.delete, Episode.delete, Review.delete, Rating.delete,
\* ActionOpt.delete, Episode.get_event and Episode.delete_action, called for
\* an id that has no persisted row, raise instead of returning normally
C22_MissingRowRaises ==
    [][(/\ nsaves'["client"] # nsaves["client"]
        /\ TableOf(lastOp'.name) # "none"
        /\ lastOp'.target \notin DOMAIN db[TableOf(lastOp'.name)])
          => ~lastOp'.ok]_vars

\* Review.delete has raised for a Review whose row was gone, while rows of
\* other objects are persisted
C22_Witness ==
    /\ lastOp.name = "Review.delete"
    /\ ~lastOp.ok
    /\ lastOp.target \notin DOMAIN db.reviews
    /\ DOMAIN db.actions # {}

----------------------------------------------------------------------------
(* The concurrent writers, one of which may delete the ActionEvent *)

\* ActionEvent.delete by a writer that is not saving: the DELETE waits for a
\* transaction that holds the row
Delete(w) ==
    /\ Idle(w)
    /\ SharedId \in DOMAIN db.actions
    /\ ~LockedByOther(db, SharedId, w)
    /\ db' = CascadeDelete(db, SharedId)
    /\ UNCHANGED <<nextId, mem, sess, out, nsaves, added, sawError, ep, lastOp, lastCall,
                   arg, v1, ret>>

NextVanish ==
    \E w \in Writers :
        \/ SharedId \in DOMAIN db.actions /\ Load(w)
        \/ \E v \in BOOLEAN : SetFlagged(w, v)
        \/ PostReview(w, "alice", "human", TRUE, "None")
        \/ AddActionOpt(w)
        \/ Save(w)
        \/ SaveMerge(w)
        \/ SaveReviews(w)
        \/ SaveActionOpts(w)
        \/ SaveCommit(w)
        \/ SaveConflict(w)
        \/ Delete(w)

SpecVanish == Init /\ [][NextVanish]_vars

\* C24: when ActionEvent.save() looks for the row of the ActionEvent after the
\* upsert, or reloads it after a conflict, and the row is gone from the
\* store, save() raises to the caller; the reload after a conflict is the
\* only thing that follows a failed lookup, and nothing is retried after it
C24_MissingRowIsFatal ==
    [][\A w \in Writers :
          (/\ sess'[w] # sess[w]
           /\ SharedId \notin DOMAIN db.actions)
             => /\ sess[w].pc = "conflict"
                   => (sess'[w].pc = "idle" /\ out'[w] = "error")
                /\ (sess[w].pc = "opts" /\ sess[w].present)
                   => \/ sess'[w].pc = "idle" /\ out'[w] = "error"
                      \/ sess'[w].pc = "conflict"]_vars

\* a save() ended in an error after its conflict handler had run, and the
\* row of the ActionEvent is gone
C24_Witness ==
    \E w \in Writers :
        /\ out[w] = "error"
        /\ sess[w].pc = "idle"
        /\ sess[w].conflicted
        /\ SharedId \notin DOMAIN db.actions

----------------------------------------------------------------------------
(* An ActionEvent built from its wire form, saved, and loaded again *)

\* the values a V1Review carries as correction: None, a str or a dict; loads
\* is what json.loads makes of the str, and parsed the text of that result
WireCorrections ==
    {[kind |-> "none", text |-> "None", loads |-> "none", parsed |-> "None"],
     [kind |-> "str", text |-> "move it left", loads |-> "JSONDecodeError", parsed |-> "None"],
     [kind |-> "str", text |-> "\"left\"", loads |-> "str", parsed |-> "left"],
     [kind |-> "str", text |-> "{x0: 1}", loads |-> "dict", parsed |-> "{x0: 1}"],
     [kind |-> "dict", text |-> "{x0: 1}", loads |-> "none", parsed |-> "None"]}

\* json.dumps of a dict correction: the str that json.loads turns back into it
json_dumps(c) == [kind |-> "str", text |-> c.text, loads |-> "dict", parsed |-> c.text]

\* json.loads of a stored str; "JSONDecodeError" when it is not JSON
json_loads(c) ==
    CASE c.loads = "dict" -> [kind |-> "dict", text |-> c.parsed, loads |-> "none", parsed |-> "None"]
      [] c.loads = "str" -> [kind |-> "str", text |-> c.parsed, loads |-> "JSONDecodeError", parsed |-> "None"]
      [] OTHER -> [kind |-> "JSONDecodeError"]

\* Review.to_v1, on the fields the store keeps: a str correction goes out
\* parsed only when it parses to a dict
CorrectionToV1(c) ==
    IF c.kind = "str" /\ c.loads = "dict" THEN json_loads(c) ELSE c

\* the correction column Review.to_record writes
CorrectionToRecord(c) ==
    CASE c.kind = "none" -> c
      [] c.kind = "str" -> c
      [] OTHER -> json_dumps(c)

\* Review.from_record: the column is parsed as JSON whenever it parses, and
\* kept as the raw str otherwise
CorrectionFromRecord(col) ==
    IF col.kind = "none" THEN col
    ELSE IF json_loads(col) = [kind |-> "JSONDecodeError"] THEN col
    ELSE json_loads(col)

\* Review.to_record with the correction column
StoredReview(r) ==
    [reviewer |-> r.reviewer, reviewer_type |-> r.reviewer_type,
     approved |-> r.approved, reason |-> r.reason,
     resource_type |-> r.resource_type, resource_id |-> r.resource_id,
     parent_id |-> r.parent_id, created |-> r.created, updated |-> r.updated,
     correction |-> CorrectionToRecord(r.correction)]

\* Review.from_record with the correction column
LoadedReview(id, row) ==
    [id |-> id, reviewer |-> row.reviewer, reviewer_type |-> row.reviewer_type,
     approved |-> row.approved, reason |-> row.reason,
     resource_type |-> row.resource_type, resource_id |-> row.resource_id,
     parent_id |-> row.parent_id, created |-> row.created, updated |-> row.updated,
     correction |-> CorrectionFromRecord(row.correction)]

\* the V1Review of a Review, on the same fields
StoredReviewToV1(r) == [r EXCEPT !.correction = CorrectionToV1(@)]

\* the V1Review lists of a wire form: ids ascend along the list
WireReviews(first, resource_type, owner) ==
    UNION {[1..n -> {[id |-> first, reviewer |-> "alice", reviewer_type |-> "human",
                      approved |-> TRUE, reason |-> "None",
                      resource_type |-> resource_type, resource_id |-> rid,
                      parent_id |-> NoId, created |-> 1, updated |-> 0,
                      correction |-> c]
                        : rid \in {NoId, owner}, c \in WireCorrections}]
             : n \in 0..MaxNestedReviews}

Renumbered(rs, first) == [i \in DOMAIN rs |-> [rs[i] EXCEPT !.id = first + i - 1]]

\* the V1ActionEvents handed to ActionEvent.from_v1
WireEvents ==
    {[id |-> SharedId, flagged |-> f, hidden |-> FALSE, episode_id |-> e,
      reviews |-> Renumbered(rs, FirstFreeId),
      reviewables |-> vs,
      action_opts |-> os]
        : f \in BOOLEAN, e \in {NoId, ForeignId},
          rs \in WireReviews(FirstFreeId, "action", SharedId),
          vs \in {<<>>} \cup
                 {<<[id |-> FirstFreeId + 10, type |-> "AnnotationReviewable",
                     resource_type |-> "action", resource_id |-> SharedId,
                     reviews |-> Renumbered(ns, FirstFreeId + 11)]>>
                    : ns \in WireReviews(FirstFreeId + 11, "reviewable", FirstFreeId + 10)},
          os \in {<<>>, <<[id |-> FirstFreeId + 20]>>}}

\* ActionEvent.from_v1 followed by save(): the in-memory object after the
\* save, which has filled resource_id and resource_type of the Reviews (as
\* Reviewable.save has for the nested ones) and set action_id on the
\* ActionOpts
FilledReviews(rs, owner, type) ==
    [i \in DOMAIN rs |-> FillResource(rs[i], owner, type)]

SavedEvent(w) ==
    [id |-> w.id, flagged |-> w.flagged, hidden |-> w.hidden, episode_id |-> w.episode_id,
     reviews |-> FilledReviews(w.reviews, w.id, "action"),
     reviewables |->
         [i \in DOMAIN w.reviewables |->
             [id |-> w.reviewables[i].id, type |-> w.reviewables[i].type,
              resource_type |-> w.reviewables[i].resource_type,
              resource_id |-> w.reviewables[i].resource_id,
              reviews |-> [j \in DOMAIN w.reviewables[i].reviews |->
                            [w.reviewables[i].reviews[j] EXCEPT
                               !.resource_id = IF @ = NoId THEN w.reviewables[i].id ELSE @]]]],
     action_opts |-> [i \in DOMAIN w.action_opts |->
                        [id |-> w.action_opts[i].id, action_id |-> w.id]]]

\* the rows and association rows save() leaves for that object
StoredEvent(d, ev) ==
    LET nested == UNION {{ev.reviewables[i].reviews[j] : j \in DOMAIN ev.reviewables[i].reviews}
                           : i \in DOMAIN ev.reviewables}
        all == {ev.reviews[i] : i \in DOMAIN ev.reviews} \cup nested
    IN [d EXCEPT
          !.actions = Put(@, ev.id, ActionToRecord(ev)),
          !.reviews = [id \in {r.id : r \in all} |->
                          StoredReview(CHOOSE r \in all : r.id = id)],
          !.reviewables = [id \in Ids(ev.reviewables) |->
                              ReviewableToRecord(CHOOSE v \in {ev.reviewables[i] : i \in DOMAIN ev.reviewables} : v.id = id)],
          !.action_opts = [id \in Ids(ev.action_opts) |-> [action_id |-> ev.id]],
          !.action_reviews = {<<ev.id, r>> : r \in Ids(ev.reviews)},
          !.action_reviewables = {<<ev.id, v>> : v \in Ids(ev.reviewables)},
          !.reviewable_reviews =
              UNION {{<<ev.reviewables[i].id, r>> : r \in Ids(ev.reviewables[i].reviews)}
                       : i \in DOMAIN ev.reviewables}]

\* ActionEvent.from_record over the stored rows, children in id order
LoadedEvent(d, aid) ==
    LET rs == SortedSeq(ReviewsOf(d, aid) \cap DOMAIN d.reviews)
        vs == SortedSeq(ReviewablesOf(d, aid) \cap DOMAIN d.reviewables)
        os == SortedSeq(OptsOf(d, aid))
    IN [id |-> aid,
        flagged |-> d.actions[aid].flagged,
        hidden |-> d.actions[aid].hidden,
        episode_id |-> d.actions[aid].episode_id,
        reviews |-> [i \in DOMAIN rs |-> LoadedReview(rs[i], d.reviews[rs[i]])],
        reviewables |->
            [i \in DOMAIN vs |->
                LET ns == SortedSeq(ReviewsOfReviewable(d, vs[i]) \cap DOMAIN d.reviews)
                IN [id |-> vs[i],
                    type |-> reviewable_type_map[d.reviewables[vs[i]].type],
                    resource_type |-> d.reviewables[vs[i]].resource_type,
                    resource_id |-> d.reviewables[vs[i]].resource_id,
                    reviews |-> [j \in DOMAIN ns |-> LoadedReview(ns[j], d.reviews[ns[j]])]]],
        action_opts |-> [i \in DOMAIN os |-> ActionOptFromRecord(os[i], d.action_opts[os[i]])]]

\* ActionEvent.to_v1: ActionOpt.to_v1 does not pass action_id on
EventToV1(ev) ==
    [id |-> ev.id, flagged |-> ev.flagged, hidden |-> ev.hidden, episode_id |-> ev.episode_id,
     reviews |-> [i \in DOMAIN ev.reviews |-> StoredReviewToV1(ev.reviews[i])],
     reviewables |->
         [i \in DOMAIN ev.reviewables |->
             [id |-> ev.reviewables[i].id, type |-> ev.reviewables[i].type,
              resource_type |-> ev.reviewables[i].resource_type,
              resource_id |-> ev.reviewables[i].resource_id,
              reviews |-> [j \in DOMAIN ev.reviewables[i].reviews |->
                            StoredReviewToV1(ev.reviewables[i].reviews[j])]]],
     action_opts |-> [i \in DOMAIN ev.action_opts |-> [id |-> ev.action_opts[i].id]]]

InitStored ==
    /\ NoProgram
    /\ arg \in WireEvents
    /\ v1 = NoValue
    /\ ret = NoValue

\* action_event = ActionEvent.from_v1(arg); action_event.save();
\* v1 is action_event.to_v1() taken after the save
FromV1AndSave ==
    /\ v1 = NoValue
    /\ db' = StoredEvent(db, SavedEvent(arg))
    /\ v1' = EventToV1(SavedEvent(arg))
    /\ UNCHANGED <<nextId, mem, sess, out, nsaves, added, sawError, ep, lastOp, lastCall,
                   arg, ret>>

\* ActionEvent.find(id=action_event.id)[0].to_v1()
FindToV1 ==
    /\ v1 # NoValue
    /\ ret = NoValue
    /\ ret' = EventToV1(LoadedEvent(db, arg.id))
    /\ UNCHANGED <<db, nextId, mem, sess, out, nsaves, added, sawError, ep, lastOp, lastCall,
                   arg, v1>>

NextStored ==
    \/ FromV1AndSave
    \/ FindToV1

SpecStored == InitStored /\ [][NextStored]_vars

\* C25: an ActionEvent built from a wire form, saved, and loaded with
\* find(id=...) has the wire form of the saved one: find(id)[0].to_v1()
\* equals to_v1() of the saved event in every field, reviews, reviewables
\* and action_opts included
C25_StoredRoundTrip ==
    ret # NoValue => ret = v1

\* the same with every Review correction that json.loads accepts without
\* giving a dict left out
C25_RoundTripOfOtherCorrections ==
    (/\ ret # NoValue
     /\ \A i \in DOMAIN arg.reviews : arg.reviews[i].correction.loads # "str"
     /\ \A i \in DOMAIN arg.reviewables : \A j \in DOMAIN arg.reviewables[i].reviews :
           arg.reviewables[i].reviews[j].correction.loads # "str")
        => ret = v1

----------------------------------------------------------------------------
(* The merge of the conflict handler (specification Spec) *)

\* C26: when save() hits a version conflict while the caller holds children
\* the latest persisted ActionEvent lacks, and nothing disturbs the retry,
\* the persisted child sets become the latest persisted sets united with the
\* caller's new Reviews, Reviewables and ActionOpts, no persisted child is
\* detached, and the persisted scalar fields stay those of the writer that won
C26_ConflictMergesNewChildren ==
    [][\A w \in Writers :
          (/\ sess[w].pc = "conflict" /\ sess'[w] # sess[w]
           /\ mem[w].id \in DOMAIN db.actions
           /\ ~NothingNew(db, mem[w]))
             => /\ ReviewsOf(db', mem[w].id) =
                       ReviewsOf(db, mem[w].id) \cup Ids(mem[w].reviews)
                /\ ReviewablesOf(db', mem[w].id) =
                       ReviewablesOf(db, mem[w].id) \cup Ids(mem[w].reviewables)
                /\ OptsOf(db', mem[w].id) =
                       OptsOf(db, mem[w].id) \cup Ids(mem[w].action_opts)
                /\ RowScalars(db'.actions[mem[w].id]) = RowScalars(db.actions[mem[w].id])]_vars

\* what the handler does do in that case: it raises, attaches nothing and
\* detaches nothing, and leaves the scalar fields of the winner
C26_ConflictWithNewChildrenRaises ==
    [][\A w \in Writers :
          (/\ sess[w].pc = "conflict" /\ sess'[w] # sess[w]
           /\ mem[w].id \in DOMAIN db.actions
           /\ ~NothingNew(db, mem[w]))
             => /\ out'[w] = "error"
                /\ ReviewsOf(db', mem[w].id) = ReviewsOf(db, mem[w].id)
                /\ ReviewablesOf(db', mem[w].id) = ReviewablesOf(db, mem[w].id)
                /\ RowScalars(db'.actions[mem[w].id]) = RowScalars(db.actions[mem[w].id])]_vars

\* a save() that met a version conflict never ends with a commit
C26_NoRetryCommitSucceeds ==
    \A w \in Writers : (Idle(w) /\ sess[w].conflicted) => out[w] \in {"noop", "error"}

----------------------------------------------------------------------------
(* Reviews posted on a Reviewable *)

\* post_review calls made on the Reviewable
MaxPosts == 3

\* Reviewable._save_review up to its call of save(): a new Review of the
\* Reviewable is constructed and appended, whatever the list holds
save_review(x, reviewer, reviewer_type, approved, id) ==
    [x EXCEPT !.reviews =
        Append(@, [NewReview(id, reviewer, reviewer_type, approved, "None", x.id)
                     EXCEPT !.resource_type = "reviewable"])]

\* BoundingBoxReviewable(...) / AnnotationReviewable(...) of an ActionEvent,
\* not reviewed yet
InitPosts ==
    /\ NoProgram
    /\ arg \in {[id |-> FirstFreeId, type |-> t, resource_type |-> "action",
                 resource_id |-> SharedId, reviews |-> <<>>]
                  : t \in DOMAIN reviewable_type_map}
    /\ v1 = NoValue
    /\ ret = NoValue

\* BoundingBoxReviewable.post_review / AnnotationReviewable.post_review: both
\* hand their arguments to _save_review, which ends with self.save()
ReviewablePostReview(reviewer, reviewer_type, approved) ==
    /\ Len(arg.reviews) < MaxPosts
    /\ arg' = save_review(arg, reviewer, reviewer_type, approved,
                          arg.id + 1 + Len(arg.reviews))
    /\ db' = ReviewableSave(db, arg')
    /\ UNCHANGED <<nextId, mem, sess, out, nsaves, added, sawError, ep, lastOp, lastCall,
                   v1, ret>>

NextPosts ==
    \E reviewer \in Reviewers, reviewer_type \in ReviewerTypes, approved \in BOOLEAN :
        ReviewablePostReview(reviewer, reviewer_type, approved)

SpecPosts == InitPosts /\ [][NextPosts]_vars

\* C27: a Reviewable holds, in memory and in the store, at most one Review
\* per (reviewer, reviewer_type) pair: posting again for a pair updates the
\* existing Review in place
C27_OneReviewPerPairOnReviewable ==
    /\ \A i \in DOMAIN arg.reviews, j \in DOMAIN arg.reviews :
          SamePair(arg.reviews[i], arg.reviews[j]) => i = j
    /\ \A r1 \in ReviewsOfReviewable(db, arg.id), r2 \in ReviewsOfReviewable(db, arg.id) :
          SamePair(db.reviews[r1], db.reviews[r2]) => r1 = r2

\* every post_review on a Reviewable adds one Review to it, in memory and in
\* the store
C27_EveryPostAddsAReview ==
    [][/\ Len(arg'.reviews) = Len(arg.reviews) + 1
       /\ Cardinality(ReviewsOfReviewable(db', arg.id)) =
             Cardinality(ReviewsOfReviewable(db, arg.id)) + 1]_vars

----------------------------------------------------------------------------
(* ActionEvent.post_review on Reviews with all their fields *)

NoCorrection == [kind |-> "none", text |-> "None", loads |-> "none", parsed |-> "None"]

\* correctionRecord: correction.model_dump_json() of the V1Action handed in,
\* None when there is none
CorrectionRecord(correction) ==
    IF correction = "None" THEN NoCorrection
    ELSE [kind |-> "str", text |-> correction, loads |-> "dict", parsed |-> correction]

\* Mutant of post_review: the correction of an existing Review is overwritten
\* by every call
post_reviewOverwritesCorrection(ev, reviewer, reviewer_type, approved, reason, parent_id, correction, id, now) ==
    IF HasReviewBy(ev, reviewer, reviewer_type)
    THEN [ev EXCEPT !.reviews =
            [i \in DOMAIN @ |->
                IF @[i].reviewer = reviewer /\ @[i].reviewer_type = reviewer_type
                THEN [@[i] EXCEPT !.approved = approved, !.reason = reason,
                                  !.updated = now,
                                  !.correction = CorrectionRecord(correction)]
                ELSE @[i]]]
    ELSE [ev EXCEPT !.reviews =
            Append(@, [id |-> id, reviewer |-> reviewer, reviewer_type |-> reviewer_type,
                       approved |-> approved, reason |-> reason,
                       resource_type |-> "action", resource_id |-> ev.id,
                       parent_id |-> parent_id, created |-> now, updated |-> 0,
                       correction |-> CorrectionRecord(correction)])]

\* ActionEvent.post_review up to its call of save(), on Reviews with all
\* their fields: every Review of the pair gets approved, reason and updated
\* (time.time(), here now) set, and correction when one is handed in;
\* without such a Review a new one is constructed and appended
post_review(ev, reviewer, reviewer_type, approved, reason, parent_id, correction, id, now) ==
    IF HasReviewBy(ev, reviewer, reviewer_type)
    THEN [ev EXCEPT !.reviews =
            [i \in DOMAIN @ |->
                IF @[i].reviewer = reviewer /\ @[i].reviewer_type = reviewer_type
                THEN [@[i] EXCEPT !.approved = approved, !.reason = reason,
                                  !.updated = now,
                                  !.correction =
                                      IF CorrectionRecord(correction) # NoCorrection
                                      THEN CorrectionRecord(correction) ELSE @]
                ELSE @[i]]]
    ELSE [ev EXCEPT !.reviews =
            Append(@, [id |-> id, reviewer |-> reviewer, reviewer_type |-> reviewer_type,
                       approved |-> approved, reason |-> reason,
                       resource_type |-> "action", resource_id |-> ev.id,
                       parent_id |-> parent_id, created |-> now, updated |-> 0,
                       correction |-> CorrectionRecord(correction)])]

\* the Review lists an ActionEvent is constructed with: per reviewer no
\* Review or one, with resource_id given or left None
ConstructedReviews ==
    LET of(reviewer, id) ==
            {<<>>} \cup
            {<<[id |-> id, reviewer |-> reviewer, reviewer_type |-> "human",
                approved |-> FALSE, reason |-> "None",
                resource_type |-> "action", resource_id |-> rid,
                parent_id |-> NoId, created |-> 1, updated |-> 0,
                correction |-> c]>>
               : rid \in {NoId, SharedId},
                 c \in {NoCorrection, CorrectionRecord("{name: type}")}}
    IN {a \o b : a \in of("alice", FirstFreeId), b \in of("bob", FirstFreeId + 1)}

\* ActionEvent(..., reviews=...)
InitFrame ==
    /\ NoProgram
    /\ arg \in {[NoAction EXCEPT !.id = SharedId, !.reviews = rs] : rs \in ConstructedReviews}
    /\ v1 = NoValue
    /\ ret = NoValue

\* time.time() at the next call: later than every time stored so far
Now == nsaves["client"] + 2

\* the arguments of the post_review calls
PostArgs ==
    [reviewer : Reviewers, approved : BOOLEAN, reason : {"None", "ok"},
     parent_id : {NoId, ForeignId}, correction : {"None", "{name: click}"}]

\* ActionEvent.post_review, its save() included
EventPostReview(a) ==
    /\ nsaves["client"] < MaxPosts
    /\ arg' = SavedEvent(post_review(arg, a.reviewer, "human", a.approved, a.reason,
                                     a.parent_id, a.correction,
                                     FirstFreeId + 2 + nsaves["client"], Now))
    /\ db' = StoredEvent(db, arg')
    /\ nsaves' = [nsaves EXCEPT !["client"] = @ + 1]
    /\ UNCHANGED <<nextId, mem, sess, out, added, sawError, ep, lastOp, lastCall, v1, ret>>

NextFrame == \E a \in PostArgs : EventPostReview(a)

SpecFrame == InitFrame /\ [][NextFrame]_vars

\* the Reviews of the pair the call is made for
OfPair(a) ==
    {i \in DOMAIN arg.reviews :
        arg.reviews[i].reviewer = a.reviewer /\ arg.reviews[i].reviewer_type = "human"}

\* what the call makes of approved, reason, updated and correction of the
\* Review at i, and that it keeps id, created and parent_id
Overwrites(a, i) ==
    /\ arg'.reviews[i].approved = a.approved
    /\ arg'.reviews[i].reason = a.reason
    /\ arg'.reviews[i].updated = Now
    /\ arg'.reviews[i].correction =
          IF a.correction # "None" THEN CorrectionRecord(a.correction)
          ELSE arg.reviews[i].correction
    /\ arg'.reviews[i].id = arg.reviews[i].id
    /\ arg'.reviews[i].created = arg.reviews[i].created
    /\ arg'.reviews[i].parent_id = arg.reviews[i].parent_id
    /\ db'.reviews[arg.reviews[i].id] = StoredReview(arg'.reviews[i])

----------------------------------------------------------------------------
(* An Episode saved by a client whose list is stale *)

\* ids of the ActionEvents the other process records
OtherId == ForeignId - 1 - Cardinality(added["w1"])

\* another process loads the persisted Episode and records a new ActionEvent
\* into it (Episode.record_event): the event is saved with the episode's id
\* and the EpisodeRecord's updated is set; the client's Episode object does
\* not learn of it
OtherRecord ==
    /\ ep.id \in DOMAIN db.episodes
    /\ Cardinality(added["w1"]) < MaxActions
    /\ db' = RecordEventOp(db, [id |-> ep.id, actions |-> <<>>,
                                updated |-> db.episodes[ep.id].updated],
                           [NoAction EXCEPT !.id = OtherId], nextId["w1"]).db
    /\ added' = [added EXCEPT !["w1"] = @ \cup {OtherId}]
    /\ UNCHANGED <<nextId, mem, sess, out, nsaves, sawError, ep, lastOp, lastCall,
                   arg, v1, ret>>

NextStale ==
    \/ \E action \in NewEvents(nextId["client"]) : Record(action)
    \/ OtherRecord
    \/ EpisodeSave
    \/ \E rv \in BulkArgs, a \in BOOLEAN, h \in BOOLEAN : ReviewAll(rv, a, h)
    \/ \E id \in EventIds, rv \in BulkArgs, a \in BOOLEAN, h \in BOOLEAN :
          ReviewPrior(id, rv, a, h)
    \/ \E id \in EventIds : DeleteAction(id)

SpecStale == InitEpisode /\ [][NextStale]_vars

\* the ActionEvent with this id is persisted as an event of the episode
RecordedInto(d, id) ==
    id \in DOMAIN d.actions /\ d.actions[id].episode_id = ep.id

\* C29: Episode.save(), called directly or at the end of approve_all,
\* fail_all, approve_prior, fail_prior or delete_action by a client whose
\* in-memory list is stale, never deletes or detaches an ActionEvent that
\* another writer recorded into the episode after the client loaded it
C29_StaleSaveKeepsOthersEvents ==
    [][\A id \in added["w1"] :
          (nsaves'["client"] # nsaves["client"] /\ RecordedInto(db, id))
             => RecordedInto(db', id)]_vars

\* Episode.record by the stale client keeps them: record_event does not save
\* the Episode
C29_RecordKeepsOthersEvents ==
    [][\A id \in added["w1"] :
          (nsaves'["client"] # nsaves["client"] /\ lastOp'.name = "Episode.record"
             /\ RecordedInto(db, id))
             => RecordedInto(db', id)]_vars

\* every Episode.save() that returns leaves, of the persisted events of the
\* episode, exactly those of the client's list
C29_SaveLeavesOnlyListedEvents ==
    [][(nsaves'["client"] # nsaves["client"] /\ lastOp'.ok
          /\ lastOp'.name \in {"Episode.save", "Episode.approve_all", "Episode.fail_all",
                               "Episode.delete_action"})
          => ActionsOfEpisode(db', ep.id) = Ids(ep'.actions)]_vars

----------------------------------------------------------------------------
(* Termination of ActionEvent.save *)

\* the save() of writer w takes its next step
Running(w) ==
    /\ sess[w].pc # "idle"
    /\ Step(w, sess[w].pc)

\* the writers change their copies and save them, one call after the other
NextFair ==
    \E w \in Writers :
        \/ SetFlagged(w, TRUE)
        \/ PostReview(w, "alice", "human", TRUE, "None")
        \/ AddActionOpt(w)
        \/ Running(w)

\* save() is a synchronous call: a writer that is not waiting for the row
\* runs on
SpecFair == Init /\ [][NextFair]_vars /\ \A w \in Writers : WF_vars(Running(w))

\* the order of the stretches of save(): the try block up to its commit, the
\* handler of the version conflict with the retry commit, the return
Stage(pc) ==
    CASE pc = "merge" -> 1
      [] pc = "reviews" -> 2
      [] pc = "reviewables" -> 3
      [] pc = "opts" -> 4
      [] pc = "commit" -> 5
      [] pc = "conflict" -> 6
      [] OTHER -> 7

\* a running save() only moves forward: from the try block to its commit,
\* from there to the return or to the conflict handler, and from the handler
\* to the return; it ends with a normal return or an error raised to the
\* caller, and nothing runs for a writer after the return until the caller
\* makes its next call
SaveOnlyMovesForward ==
    \A w \in Writers :
        /\ (sess[w].pc # "idle" /\ sess'[w] # sess[w])
              => /\ Stage(sess'[w].pc) > Stage(sess[w].pc)
                 /\ sess'[w].pc = "idle" => out'[w] \in {"ok", "noop", "error"}
                 /\ sess[w].pc = "conflict" => sess'[w].pc = "idle"
        /\ (sess[w].pc = "idle" /\ sess'[w].pc # "idle")
              => nsaves'[w] = nsaves[w] + 1

\* the same under every interleaving of the writers of specification Spec
C30_SaveOnlyMovesForward == [][SaveOnlyMovesForward]_vars

\* C30: every call of ActionEvent.save() terminates after at most two commit
\* attempts, the initial one and at most one retry, with a normal return or
\* an error raised to the caller; there is no further or background retry
C30_SaveTerminatesWithinTwoAttempts ==
    /\ [][SaveOnlyMovesForward]_vars
    /\ \A w \in Writers : (sess[w].pc # "idle") ~> (sess[w].pc = "idle")

\* a save() has been through the conflict handler and has ended, while the
\* other writer's save() has returned normally
C30_Witness ==
    \E w \in Writers, o \in Writers :
        /\ w # o
        /\ Idle(w) /\ sess[w].conflicted /\ out[w] \in {"noop", "error"}
        /\ Idle(o) /\ out[o] = "ok"

====
